---------------------------- MODULE Spec2Model ----------------------------
(***************************************************************************)
(* Model of the wikipedia-pro proxy engine (src/server/app.py): the host   *)
(* allowlist, URL parsing / unwrapping, the cache key and adaptive TTL,    *)
(* and the request handlers /m, /i, /static/{path} and /{path}.            *)
(*                                                                         *)
(* Strings are sequences of tokens.  A token is either a delimiter the     *)
(* code splits on (":", "/", "?", "#", "=", "&", "@", ".", ",", ";", "|",  *)
(* " "), a percent-escape of one ("%3A", ...), or a run of letters and     *)
(* digits.  The empty sequence stands for both "" and None wherever the    *)
(* code only tests truthiness.  An optional integer is <<>> or <<n>>.      *)
(***************************************************************************)
EXTENDS Integers, Sequences, FiniteSets, TLC

(***************************************************************************)
(* Generic string helpers (str methods used by the code).                  *)
(***************************************************************************)

\* Index of the first token of s that is in T, 0 when there is none (str.find).
FirstIn(s, T) ==
    IF \E i \in 1..Len(s) : s[i] \in T
    THEN CHOOSE i \in 1..Len(s) : s[i] \in T /\ \A j \in 1..(i - 1) : s[j] \notin T
    ELSE 0

\* Index of the last token of s that is in T, 0 when there is none (str.rfind).
LastIn(s, T) ==
    IF \E i \in 1..Len(s) : s[i] \in T
    THEN CHOOSE i \in 1..Len(s) : s[i] \in T /\ \A j \in (i + 1)..Len(s) : s[j] \notin T
    ELSE 0

\* s[i:] with a 1-based index.
From(s, i) == SubSeq(s, i, Len(s))

\* s[:i-1] with a 1-based index.
Upto(s, i) == SubSeq(s, 1, i - 1)

StartsWith(s, pre) == Len(s) >= Len(pre) /\ SubSeq(s, 1, Len(pre)) = pre

EndsWith(s, suf) == Len(s) >= Len(suf) /\ SubSeq(s, Len(s) - Len(suf) + 1, Len(s)) = suf

\* pre occurs somewhere in s (the Python `in` on strings).
Contains(s, sub) == \E i \in 1..(Len(s) + 1) : StartsWith(From(s, i), sub)

\* str.lower, token by token.
LowerTok(t) ==
    CASE t = "HTTP" -> "http"
      [] t = "HTTPS" -> "https"
      [] t = "EN" -> "en"
      [] t = "FR" -> "fr"
      [] t = "Wikipedia" -> "wikipedia"
      [] t = "ORG" -> "org"
      [] t = "LOCALHOST" -> "localhost"
      [] t = "Content-Security-Policy" -> "content-security-policy"
      [] t = "X-Frame-Options" -> "x-frame-options"
      [] t = "Refresh" -> "refresh"
      [] OTHER -> t

Lower(s) == IF s = <<>> THEN <<>> ELSE [i \in 1..Len(s) |-> LowerTok(s[i])]

\* str.strip: drop leading and trailing blanks.
RECURSIVE LStrip(_)
LStrip(s) == IF s # <<>> /\ s[1] = " " THEN LStrip(Tail(s)) ELSE s

RECURSIVE RStrip(_)
RStrip(s) == IF s # <<>> /\ s[Len(s)] = " " THEN RStrip(Upto(s, Len(s))) ELSE s

Strip(s) == RStrip(LStrip(s))

\* s[:s.find(c)] for the first c of T in s, all of s when there is none
UptoAny(s, T) == IF FirstIn(s, T) = 0 THEN s ELSE Upto(s, FirstIn(s, T))

\* s[s.find(c):] for the first c of T in s, "" when there is none
FromAny(s, T) == IF FirstIn(s, T) = 0 THEN <<>> ELSE From(s, FirstIn(s, T))

\* s[s.find(c)+1:] for the first c of T in s, "" when there is none
AfterAny(s, T) == IF FirstIn(s, T) = 0 THEN <<>> ELSE From(s, FirstIn(s, T) + 1)

\* str.split(sep, 1)[0]
SplitFirst(s, sep) == UptoAny(s, {sep})

\* str.split(sep, 1)[1], "" when sep is absent
SplitRest(s, sep) == AfterAny(s, {sep})

\* str.split(sep): the list of pieces.
RECURSIVE Split(_, _)
Split(s, sep) ==
    IF FirstIn(s, {sep}) = 0 THEN <<s>>
    ELSE <<UptoAny(s, {sep})>> \o Split(AfterAny(s, {sep}), sep)

(***************************************************************************)
(* Percent-encoding (urllib.parse.quote with safe='' and unquote).         *)
(***************************************************************************)

QuoteTok(t) ==
    CASE t = ":" -> "%3A"
      [] t = "/" -> "%2F"
      [] t = "?" -> "%3F"
      [] t = "#" -> "%23"
      [] t = "=" -> "%3D"
      [] t = "&" -> "%26"
      [] t = "@" -> "%40"
      [] t = "|" -> "%7C"
      [] t = " " -> "%20"
      [] t = "%3A" -> "%253A"
      [] t = "%2F" -> "%252F"
      [] t = "%3F" -> "%253F"
      [] t = "%3D" -> "%253D"
      [] t = "%26" -> "%2526"
      [] t = "%253A" -> "%25253A"
      [] t = "%252F" -> "%25252F"
      [] t = "%253F" -> "%25253F"
      [] t = "%253D" -> "%25253D"
      [] OTHER -> t

UnquoteTok(t) ==
    CASE t = "%3A" -> ":"
      [] t = "%2F" -> "/"
      [] t = "%3F" -> "?"
      [] t = "%23" -> "#"
      [] t = "%3D" -> "="
      [] t = "%26" -> "&"
      [] t = "%40" -> "@"
      [] t = "%7C" -> "|"
      [] t = "%20" -> " "
      [] t = "%253A" -> "%3A"
      [] t = "%252F" -> "%2F"
      [] t = "%253F" -> "%3F"
      [] t = "%253D" -> "%3D"
      [] t = "%2526" -> "%26"
      [] t = "%25253A" -> "%253A"
      [] t = "%25252F" -> "%252F"
      [] t = "%25253F" -> "%253F"
      [] t = "%25253D" -> "%253D"
      [] OTHER -> t

quote(s) == [i \in 1..Len(s) |-> QuoteTok(s[i])]

unquote(s) == [i \in 1..Len(s) |-> UnquoteTok(s[i])]

(***************************************************************************)
(* urllib.parse: urlparse, geturl, urljoin, parse_qs on token strings.     *)
(***************************************************************************)

Delims == {":", "/", "?", "#", "=", "&", "@", ",", ";", "|", " ", "[", "]"}

PctToks == {"%3A", "%2F", "%3F", "%23", "%3D", "%26", "%40", "%7C", "%20",
            "%253A", "%252F", "%253F", "%253D", "%2526",
            "%25253A", "%25252F", "%25253F", "%25253D"}

NumToks == {"5000", "8080", "443"}

\* c in scheme_chars (letters, digits, "+", "-", "."), for every character of t
IsSchemeTok(t) == t \notin (Delims \cup PctToks)

\* url[0].isalpha()
IsAlphaFirst(t) == t \notin (Delims \cup PctToks \cup NumToks \cup {"."})

\* The index of the colon that ends the scheme of url, 0 when url has no scheme.
SchemeEnd(url) ==
    IF /\ FirstIn(url, {":"}) > 1
       /\ IsAlphaFirst(url[1])
       /\ \A i \in 1..(FirstIn(url, {":"}) - 1) : IsSchemeTok(url[i])
    THEN FirstIn(url, {":"})
    ELSE 0

\* urlparse(url): scheme (lowercased), netloc, path, query, fragment.
urlparse(url) ==
    LET Hier(scheme, netloc, rest) ==
            [scheme |-> scheme, netloc |-> netloc,
             path |-> UptoAny(UptoAny(rest, {"#"}), {"?"}),
             query |-> AfterAny(UptoAny(rest, {"#"}), {"?"}),
             fragment |-> AfterAny(rest, {"#"})]
        Parts(scheme, rest) ==
            IF StartsWith(rest, <<"/", "/">>)
            THEN Hier(scheme, UptoAny(From(rest, 3), {"/", "?", "#"}),
                      FromAny(From(rest, 3), {"/", "?", "#"}))
            ELSE Hier(scheme, <<>>, rest)
    IN  Parts(Lower(Upto(url, SchemeEnd(url))), From(url, SchemeEnd(url) + 1))

\* schemes of urllib.parse.uses_netloc / uses_relative that the model meets
UsesNetloc == {<<>>, <<"http">>, <<"https">>, <<"ftp">>}

\* ParseResult.geturl() (urlunsplit)
geturl(p) ==
    (IF p.scheme # <<>> THEN p.scheme \o <<":">> ELSE <<>>)
    \o (IF p.netloc # <<>> \/
           (p.scheme # <<>> /\ p.scheme \in UsesNetloc /\ ~StartsWith(p.path, <<"/", "/">>))
        THEN <<"/", "/">> \o p.netloc \o
             (IF p.path # <<>> /\ p.path[1] # "/" THEN <<"/">> ELSE <<>>) \o p.path
        ELSE p.path)
    \o (IF p.query # <<>> THEN <<"?">> \o p.query ELSE <<>>)
    \o (IF p.fragment # <<>> THEN <<"#">> \o p.fragment ELSE <<>>)

\* urljoin(base, url) for references without "." and ".." segments
urljoin(base, url) ==
    IF url = <<>> THEN base
    ELSE
    LET Dir(path) == IF LastIn(path, {"/"}) = 0 THEN <<"/">>
                     ELSE Upto(path, LastIn(path, {"/"}) + 1)
        Join(b, u0, scheme) ==
            IF scheme # b.scheme \/ scheme \notin UsesNetloc THEN url
            ELSE IF u0.netloc # <<>>
            THEN geturl([u0 EXCEPT !.scheme = scheme])
            ELSE IF u0.path = <<>>
            THEN geturl([scheme |-> scheme, netloc |-> b.netloc, path |-> b.path,
                         query |-> IF u0.query # <<>> THEN u0.query ELSE b.query,
                         fragment |-> u0.fragment])
            ELSE geturl([scheme |-> scheme, netloc |-> b.netloc,
                         path |-> IF u0.path[1] = "/" THEN u0.path
                                  ELSE Dir(b.path) \o u0.path,
                         query |-> u0.query, fragment |-> u0.fragment])
        Parsed(b, u0) == Join(b, u0, IF u0.scheme = <<>> THEN b.scheme ELSE u0.scheme)
    IN  Parsed(urlparse(base), urlparse(url))

\* One "name=value" piece of a query string, unquoted; value "" when there is no "=".
QsPair(piece) == [name |-> unquote(SplitFirst(piece, "=")),
                  value |-> unquote(SplitRest(piece, "="))]

\* parse_qs(query): the pairs with a non-blank value, in order (keep_blank_values=False).
parse_qs(query) ==
    IF query = <<>> THEN <<>>
    ELSE LET Pairs(pieces) ==
                 SelectSeq([i \in 1..Len(pieces) |-> QsPair(pieces[i])],
                           LAMBDA pr : pr.value # <<>>)
         IN  Pairs(Split(query, "&"))

\* "name" in qs
QsHas(qs, name) == \E i \in 1..Len(qs) : qs[i].name = name

\* qs.get(name, [None])[0]
QsGet(qs, name) ==
    IF QsHas(qs, name)
    THEN qs[CHOOSE i \in 1..Len(qs) : qs[i].name = name
                     /\ \A j \in 1..(i - 1) : qs[j].name # name].value
    ELSE <<>>

\* len(qs): the number of distinct keys
QsKeys(qs) == {qs[i].name : i \in 1..Len(qs)}

(***************************************************************************)
(* Configuration (module level of app.py, read once at start-up).          *)
(***************************************************************************)

CACHE_REWRITE_VERSION == 1

CACHE_TTL_MIN_SECONDS == 600

CACHE_TTL_MAX_SECONDS == 86400

\* CACHE_TTL_GROWTH_FACTOR = 2.0, kept as the ratio GrowthNum / GrowthDen
GrowthNum == 2

GrowthDen == 1

MAX_HOPS == 8

\* The default WIKI_BASE.
DefaultWikiBase == <<"https", ":", "/", "/", "en", ".", "m", ".", "wikipedia", ".", "org">>

\* A WIKI_BASE an operator may set through the environment.
OtherWikiBase == <<"https", ":", "/", "/", "intranet", ".", "example">>

\* urljoin("https://en.wikipedia.org/", ...): the desktop origin of /static/*
DesktopOrigin == <<"https", ":", "/", "/", "en", ".", "wikipedia", ".", "org", "/">>

WIKIMEDIA_APEX ==
    { <<"wikipedia", ".", "org">>, <<"wiktionary", ".", "org">>, <<"wikidata", ".", "org">>,
      <<"wikimedia", ".", "org">>, <<"wikibooks", ".", "org">>, <<"wikiquote", ".", "org">>,
      <<"wikiversity", ".", "org">>, <<"wikivoyage", ".", "org">>, <<"wikisource", ".", "org">>,
      <<"wikinews", ".", "org">>, <<"mediawiki", ".", "org">> }

(***************************************************************************)
(* Pure helpers of app.py.                                                 *)
(***************************************************************************)

\* is_allowed_wikimedia_host whose suffix test leaves out the "." before the apex.
AllowedBySuffix(host) ==
    IF host = <<>> THEN FALSE
    ELSE \E apex \in WIKIMEDIA_APEX : EndsWith(UptoAny(Strip(Lower(host)), {":"}), apex)

is_allowed_wikimedia_host(host) ==
    IF host = <<>> THEN FALSE
    ELSE LET h0 == Strip(Lower(host))
             h == IF FirstIn(h0, {":"}) # 0 THEN SplitFirst(h0, ":") ELSE h0
         IN  \/ h \in { <<"commons", ".", "wikimedia", ".", "org">>,
                        <<"upload", ".", "wikimedia", ".", "org">> }
             \/ \E apex \in WIKIMEDIA_APEX : h = apex \/ EndsWith(h, <<".">> \o apex)

\* A timestamp string is <<t, zone>>: isoformat() of an aware UTC datetime gives "+00:00".
to_iso8601_z(dt) == <<dt, "Z">>

\* parse_iso8601: <<>> for None; otherwise <<t>>.
parse_iso8601(dt_str) ==
    IF dt_str = <<>> THEN <<>>
    ELSE LET s == IF dt_str[2] = "Z" THEN <<dt_str[1], "+00:00">> ELSE dt_str
         IN  IF s[2] = "+00:00" THEN <<s[1]>> ELSE <<>>

lang_key_from_accept_language(header_val) ==
    IF header_val = <<>> THEN <<"en">>
    ELSE LET first == Strip(SplitFirst(header_val, ","))
             tag == Lower(Strip(SplitFirst(first, ";")))
         IN  IF first = <<>> THEN <<"en">>
             ELSE IF tag = <<>> THEN <<"en">> ELSE tag

canonicalize_url_for_cache(url) == geturl([urlparse(url) EXCEPT !.fragment = <<>>])

\* SHA-256 as an injective tagging of its input (collisions aside).
sha256_hex(text) == <<"sha256">> \o text

compute_cache_key(url, lang_key) ==
    sha256_hex(<<"v", ToString(CACHE_REWRITE_VERSION), "|">> \o lang_key \o <<"|">>
               \o canonicalize_url_for_cache(url))

\* is_cacheable_html_target that accepts every path.
CacheableAnyPath(parsed) == TRUE

is_cacheable_html_target(parsed) ==
    LET path == Strip(parsed.path)
    IN  \/ path = <<>>
        \/ path = <<"/">>
        \/ StartsWith(path, <<"/", "wiki", "/">>)
        \/ path = <<"/", "w", "/", "index", ".", "php">>

\* x or d, for an optional integer x
OrInt(x, d) == IF x = <<>> \/ x[1] = 0 THEN d ELSE x[1]

\* next_ttl_seconds that raises a current TTL below CACHE_TTL_MIN_SECONDS to it
\* before growing.
NextTtlRaisedToMin(current_ttl_seconds, can_grow) ==
    IF ~can_grow THEN CACHE_TTL_MIN_SECONDS
    ELSE LET AtMostMax(grown) == IF grown > CACHE_TTL_MAX_SECONDS THEN CACHE_TTL_MAX_SECONDS ELSE grown
             Grow(cur) == AtMostMax(IF (cur * GrowthNum) \div GrowthDen <= cur
                                    THEN cur + CACHE_TTL_MIN_SECONDS
                                    ELSE (cur * GrowthNum) \div GrowthDen)
         IN  Grow(IF OrInt(current_ttl_seconds, 0) < CACHE_TTL_MIN_SECONDS
                  THEN CACHE_TTL_MIN_SECONDS ELSE OrInt(current_ttl_seconds, 0))

\* next_ttl_seconds that grows from CACHE_TTL_MIN_SECONDS instead of the current TTL.
NextTtlFromMin(current_ttl_seconds, can_grow) ==
    IF ~can_grow THEN CACHE_TTL_MIN_SECONDS
    ELSE (CACHE_TTL_MIN_SECONDS * GrowthNum) \div GrowthDen

\* next_ttl_seconds without the clamp to CACHE_TTL_MAX_SECONDS.
NextTtlNoMaxClamp(current_ttl_seconds, can_grow) ==
    IF ~can_grow THEN CACHE_TTL_MIN_SECONDS
    ELSE LET AtLeastMin(grown) ==
                 IF grown < CACHE_TTL_MIN_SECONDS THEN CACHE_TTL_MIN_SECONDS ELSE grown
             Grow(cur) ==
                 AtLeastMin(IF (cur * GrowthNum) \div GrowthDen <= cur
                            THEN cur + CACHE_TTL_MIN_SECONDS
                            ELSE (cur * GrowthNum) \div GrowthDen)
             From0(cur) == Grow(IF cur <= 0 THEN CACHE_TTL_MIN_SECONDS ELSE cur)
         IN  From0(OrInt(current_ttl_seconds, 0))

\* Lines 136-149; int(x) of a non-negative product is truncation.
next_ttl_seconds(current_ttl_seconds, can_grow) ==
    IF ~can_grow THEN CACHE_TTL_MIN_SECONDS
    ELSE LET AtMostMax(grown) ==
                 IF grown > CACHE_TTL_MAX_SECONDS THEN CACHE_TTL_MAX_SECONDS ELSE grown
             AtLeastMin(grown) ==
                 AtMostMax(IF grown < CACHE_TTL_MIN_SECONDS THEN CACHE_TTL_MIN_SECONDS
                           ELSE grown)
             Grow(cur) ==
                 AtLeastMin(IF (cur * GrowthNum) \div GrowthDen <= cur
                            THEN cur + CACHE_TTL_MIN_SECONDS
                            ELSE (cur * GrowthNum) \div GrowthDen)
             From0(cur) == Grow(IF cur <= 0 THEN CACHE_TTL_MIN_SECONDS ELSE cur)
         IN  From0(OrInt(current_ttl_seconds, 0))

absolutize(wikiBase, url_or_path) ==
    IF url_or_path = <<>> THEN wikiBase ELSE urljoin(wikiBase, url_or_path)

make_proxy_url(target_abs_url) == <<"/", "m", "?", "url", "=">> \o quote(target_abs_url)

make_image_proxy_url(target_abs_url) == <<"/", "i", "?", "url", "=">> \o quote(target_abs_url)

\* A document is the sequence of its nodes in document order.  A node is
\* [name, attrs, contents]: attrs maps the names of the attributes present to their
\* values (class to the list of its names), contents lists the text and the tags
\* inside the node.  Text outside any element is a node without a name.
Tag(name, attrs, contents) == [name |-> name, attrs |-> attrs, contents |-> contents]

Text(s) == Tag("", <<>>, <<s>>)

\* tag.get(attr) is not None
Has(tag, attr) == attr \in DOMAIN tag.attrs

\* tag.get(attr) or ""
Get(tag, attr) == IF attr \in DOMAIN tag.attrs THEN tag.attrs[attr] ELSE <<>>

\* str.split(): the pieces between runs of blanks
RECURSIVE Words(_)
Words(s) ==
    IF LStrip(s) = <<>> THEN <<>>
    ELSE <<UptoAny(LStrip(s), {" "})>> \o Words(AfterAny(LStrip(s), {" "}))

\* sep.join(list)
RECURSIVE StrJoin(_, _)
StrJoin(list, sep) ==
    IF list = <<>> THEN <<>>
    ELSE IF Len(list) = 1 THEN list[1]
    ELSE list[1] \o sep \o StrJoin(Tail(list), sep)

\* Lines 206-213: the <meta http-equiv> elements and the <base> elements decomposed.
Decomposed(tag) ==
    \/ /\ tag.name = "meta"
       /\ Has(tag, "http-equiv")
       /\ Lower(Get(tag, "http-equiv")) \in
              { <<"content-security-policy">>, <<"x-frame-options">>, <<"refresh">> }
    \/ tag.name = "base"

\* Lines 216-229: rewrite_attr(tag, attr), giving the tag after it.
rewrite_attr(tag, attr, base_url) ==
    LET Go(v) ==
            IF \/ StartsWith(v, <<"#">>)
               \/ StartsWith(v, <<"data", ":">>)
               \/ StartsWith(v, <<"javascript", ":">>)
            THEN tag
            ELSE [tag EXCEPT !.attrs[attr] =
                    make_proxy_url(urljoin(IF StartsWith(v, <<"/", "static", "/">>)
                                           THEN DesktopOrigin ELSE base_url, v))]
    IN  IF Get(tag, attr) = <<>> THEN tag ELSE Go(Strip(Get(tag, attr)))

ImageClasses == {"image", "thumb", "thumbimage", "mwe-image", "mw-file-description"}

\* The anchor rewrite without the exemption of media links.
AnchorNoMediaExemption(a, base_url) ==
    IF Strip(Get(a, "href")) = <<>> \/ StartsWith(Strip(Get(a, "href")), <<"#">>) THEN a
    ELSE [a EXCEPT !.attrs["href"] = make_proxy_url(urljoin(base_url, Strip(Get(a, "href"))))]

\* Lines 258-290: the body of the loop over the anchors with an href.
RewriteAnchor(a, base_url) ==
    LET is_file_like(path) ==
            \/ StartsWith(path, <<"/", "wiki", "/", "File", ":">>)
            \/ StartsWith(path, <<"/", "wiki", "/", "Media", ":">>)
            \/ Contains(path, <<"/", "wiki", "/", "Special", ":", "FilePath", "/">>)
        Routed(abs_href) ==
            IF \/ \E i \in 1..Len(a.contents) : a.contents[i] = "<img>"
               \/ is_file_like(urlparse(abs_href).path)
               \/ \E i \in 1..Len(Get(a, "class")) : Get(a, "class")[i] \in ImageClasses
               \/ Has(a, "data-file")
            THEN a
            ELSE [a EXCEPT !.attrs["href"] = make_proxy_url(abs_href)]
        Go(href) ==
            IF href = <<>> \/ StartsWith(href, <<"#">>) THEN a
            ELSE Routed(urljoin(base_url, href))
    IN  Go(Strip(Get(a, "href")))

\* Lines 305-321: normalize_static_url, "" for None.
normalize_static_url(url_val) ==
    LET Of(parsed) ==
            IF /\ Lower(parsed.netloc) \in { <<"en", ".", "wikipedia", ".", "org">>,
                                             <<"www", ".", "wikipedia", ".", "org">> }
               /\ StartsWith(parsed.path, <<"/", "static", "/">>)
            THEN parsed.path \o (IF parsed.query # <<>> THEN <<"?">> \o parsed.query ELSE <<>>)
            ELSE <<>>
        Go(v) ==
            IF StartsWith(v, <<"/", "static", "/">>) THEN v
            ELSE Of(urlparse(IF StartsWith(v, <<"/", "/">>) THEN <<"https", ":">> \o v ELSE v))
    IN  IF url_val = <<>> THEN <<>> ELSE Go(Strip(url_val))

\* Lines 324-337: normalize_srcset_value.
normalize_srcset_value(srcset_val) ==
    LET Part(segs, maybe) ==
            StrJoin(IF maybe # <<>> THEN <<maybe>> \o Tail(segs) ELSE segs, <<" ">>)
        Parts(parts) ==
            [i \in 1..Len(parts) |-> Part(Words(parts[i]), normalize_static_url(Words(parts[i])[1]))]
    IN  IF srcset_val = <<>> THEN srcset_val
        ELSE StrJoin(Parts(SelectSeq(Split(srcset_val, ","), LAMBDA p : Words(p) # <<>>)),
                     <<",", " ">>)

\* Lines 341-343, 348-350, 357-359: src replaced by its /static/ form when it has one.
NormalizeSrc(tag) ==
    LET Set(new_src) == IF new_src # <<>> THEN [tag EXCEPT !.attrs["src"] = new_src] ELSE tag
    IN  Set(normalize_static_url(Get(tag, "src")))

\* Lines 344-345, 351-352: srcset normalized when it is present and not empty.
NormalizeSrcset(tag) ==
    IF Get(tag, "srcset") # <<>>
    THEN [tag EXCEPT !.attrs["srcset"] = normalize_srcset_value(Get(tag, "srcset"))]
    ELSE tag

\* Lines 363-366: the action of a form routed through /m.
RewriteForm(f, base_url) ==
    IF Get(f, "action") # <<>>
    THEN [f EXCEPT !.attrs["action"] = make_proxy_url(urljoin(base_url, Get(f, "action")))]
    ELSE f

\* What the loops of lines 258-366 make of one node that stays in the tree.
RewriteTag(tag, base_url) ==
    CASE tag.name = "a" /\ Has(tag, "href") -> RewriteAnchor(tag, base_url)
      [] \/ tag.name = "link" /\ Has(tag, "href")
         \/ tag.name = "script" /\ Has(tag, "src") ->
             rewrite_attr(tag, IF tag.name = "link" THEN "href" ELSE "src", base_url)
      [] tag.name \in {"img", "source", "video", "audio"} ->
             LET Src(t) == IF t.name \in {"img", "source"} THEN NormalizeSrcset(t) ELSE t
             IN  Src(NormalizeSrc(tag))
      [] tag.name = "form" -> RewriteForm(tag, base_url)
      [] OTHER -> tag

\* Lines 372-482: the script appended to the document.
InjectedScript == Tag("script", <<>>, <<"iframe-zoom">>)

\* SelectSeq(html, LAMBDA tag : ~Decomposed(tag)), the tree after lines 206-213
Kept(html) == SelectSeq(html, LAMBDA tag : ~Decomposed(tag))

\* [RewriteTag(tag, base_url) : tag in html]
Rewritten(html, base_url) ==
    IF html = <<>> THEN <<>> ELSE [i \in 1..Len(html) |-> RewriteTag(html[i], base_url)]

rewrite_links(html, base_url) == Rewritten(Kept(html), base_url) \o <<InjectedScript>>

(***************************************************************************)
(* unwrap_proxy_url                                                        *)
(***************************************************************************)

\* _split_netloc: host part and optional port (<<>> for None, <<port>> otherwise)
SplitNetloc(netloc) ==
    LET Bracketed(inner) ==
            [host |-> UptoAny(inner, {"]"}),
             port |-> IF StartsWith(AfterAny(inner, {"]"}), <<":">>)
                      THEN <<Tail(AfterAny(inner, {"]"}))>> ELSE <<>>]
        Parts(nl) ==
            IF nl # <<>> /\ nl[1] = "[" THEN Bracketed(Tail(nl))
            ELSE IF LastIn(nl, {":"}) # 0
            THEN [host |-> Upto(nl, LastIn(nl, {":"})),
                  port |-> <<From(nl, LastIn(nl, {":"}) + 1)>>]
            ELSE [host |-> nl, port |-> <<>>]
    IN  Parts(Strip(netloc))

Loopbacks == { <<"localhost">>, <<"127", ".", "0", ".", "0", ".", "1">>,
               <<"0", ".", "0", ".", "0", ".", "0">>, <<":", ":", "1">> }

\* SameServer that takes every authority for this server.
SameServerAnyHost(netloc, reqHost) == TRUE

\* p.netloc is request.host, or both are loopback names on the same port
SameServer(netloc, reqHost) ==
    \/ netloc = reqHost
    \/ /\ SplitNetloc(netloc).port = SplitNetloc(reqHost).port
       /\ Lower(SplitNetloc(netloc).host) \in Loopbacks
       /\ Lower(SplitNetloc(reqHost).host) \in Loopbacks

\* The query parameters unwrap_proxy_url works with, after its two repairs of a
\* doubly encoded query string.
UnwrapQs(query) ==
    LET NoKeys(qs) == ~QsHas(qs, <<"url">>) /\ ~QsHas(qs, <<"path">>)
        \* lines 546-558: a single key "url=..." or "path=..."
        OnlyKey(qs, only_key) ==
            IF Contains(only_key, <<"url", "=">>) \/ Contains(only_key, <<"path", "=">>)
            THEN IF StartsWith(only_key, <<"url", "=">>)
                 THEN <<[name |-> <<"url">>, value |-> SplitRest(only_key, "=")]>>
                 ELSE IF StartsWith(only_key, <<"path", "=">>)
                 THEN <<[name |-> <<"path">>, value |-> SplitRest(only_key, "=")]>>
                 ELSE qs
            ELSE qs
        Single(qs) ==
            IF NoKeys(qs) /\ Cardinality(QsKeys(qs)) = 1
            THEN OnlyKey(qs, CHOOSE k \in QsKeys(qs) : TRUE)
            ELSE qs
        \* lines 533-544: the query decoded once more when that yields url or path
        Decoded(qs, qs2) ==
            Single(IF /\ NoKeys(qs)
                      /\ query # <<>>
                      /\ (Contains(query, <<"%3D">>) \/ Contains(query, <<"%26">>))
                      /\ ~NoKeys(qs2)
                   THEN qs2 ELSE qs)
    IN  Decoded(parse_qs(query), parse_qs(unquote(query)))

\* One pass of the loop body: <<TRUE, next>> for `continue`, <<FALSE, current>> for `break`.
UnwrapStep(current, reqHost, wikiBase) ==
    LET Dispatch(path, qs) ==
            IF path = <<"/", "m">>
            THEN IF QsGet(qs, <<"url">>) # <<>> THEN <<TRUE, QsGet(qs, <<"url">>)>>
                 ELSE IF QsGet(qs, <<"path">>) # <<>>
                 THEN <<TRUE, absolutize(wikiBase, QsGet(qs, <<"path">>))>>
                 ELSE <<FALSE, current>>
            ELSE IF path = <<"/", "i">>
            THEN IF QsGet(qs, <<"url">>) # <<>> THEN <<TRUE, QsGet(qs, <<"url">>)>>
                 ELSE <<FALSE, current>>
            ELSE <<FALSE, current>>
        Parsed(p) ==
            IF p.scheme \notin {<<"http">>, <<"https">>} THEN <<FALSE, current>>
            ELSE IF ~SameServer(p.netloc, reqHost) THEN <<FALSE, current>>
            ELSE Dispatch(p.path, UnwrapQs(p.query))
    IN  Parsed(urlparse(current))

RECURSIVE UnwrapLoop(_, _, _, _)
UnwrapLoop(current, hops, reqHost, wikiBase) ==
    IF hops = 0 THEN current
    ELSE LET Continue(r) ==
                 IF r[1] THEN UnwrapLoop(r[2], hops - 1, reqHost, wikiBase) ELSE r[2]
         IN  Continue(UnwrapStep(current, reqHost, wikiBase))

\* unwrap_proxy_url that gives up after two iterations.
UnwrapTwoHops(url, reqHost, wikiBase) == UnwrapLoop(url, 2, reqHost, wikiBase)

unwrap_proxy_url(url, reqHost, wikiBase) == UnwrapLoop(url, MAX_HOPS, reqHost, wikiBase)

(***************************************************************************)
(* Bounds of the model.                                                    *)
(***************************************************************************)

\* The clock advances in steps of CACHE_TTL_MIN_SECONDS, at most MaxTicks times.
MaxTicks == 1

\* Upstream content versions 0..MaxVersion.
MaxVersion == 1

\* Requests started over a run.
MaxRequests == 2

\* The worker threads that handle requests in parallel.
Workers == {1, 2}

\* request.host of every request
ServerHost == <<"localhost", ":", "5000">>

(***************************************************************************)
(* Inputs: the requests clients send.                                      *)
(***************************************************************************)

UploadUrl == <<"https", ":", "/", "/", "upload", ".", "wikimedia", ".", "org", "/", "foo", ".", "jpg">>

CatUrl == DefaultWikiBase \o <<"/", "wiki", "/", "Cat">>

SelfM == <<"http", ":", "/", "/", "127", ".", "0", ".", "0", ".", "1", ":", "5000">>

\* /m requests: url, path and the Accept-Language header
MobileInputs ==
    { [url |-> <<>>, path |-> <<"/", "wiki", "/", "Cat">>, al |-> <<>>],
      [url |-> CatUrl \o <<"#", "top">>, path |-> <<>>, al |-> <<"EN", ",", "fr">>],
      [url |-> CatUrl, path |-> <<>>, al |-> <<" ", "FR", ";", "q=0.9", ",", "en">>],
      [url |-> SelfM \o make_proxy_url(CatUrl), path |-> <<>>, al |-> <<>>],
      [url |-> <<"/", "w", "/", "load", ".", "php">>, path |-> <<>>, al |-> <<>>],
      [url |-> <<"https", ":", "/", "/", "evil", ".", "example", ".", "com", "/", "wiki", "/", "Cat">>,
       path |-> <<>>, al |-> <<>>],
      [url |-> <<>>, path |-> <<"/", "/", "evil", ".", "example", ".", "com", "/", "wiki", "/", "Cat">>,
       al |-> <<>>],
      [url |-> <<"ftp", ":", "/", "/", "en", ".", "m", ".", "wikipedia", ".", "org", "/", "wiki", "/", "Cat">>,
       path |-> <<>>, al |-> <<>>],
      [url |-> <<>>, path |-> <<>>, al |-> <<>>] }

\* /i requests: url
ImageInputs ==
    { <<>>,
      <<"https", ":", "/", "/", "upload", ".", "wikimedia", ".", "org", "/", "foo", ".", "jpg">>,
      <<"http", ":", "/", "/">> \o ServerHost \o make_image_proxy_url(
          <<"https", ":", "/", "/", "upload", ".", "wikimedia", ".", "org", "/", "foo", ".", "jpg">>),
      <<"https", ":", "/", "/", "evil", ".", "example", ".", "com", "/", "x", ".", "png">>,
      <<"data", ":", "image/png">> }

\* /static/{path} and /{path} requests: path (without its leading "/") and query string
PathInputs ==
    { [path |-> <<"w", "/", "load", ".", "php">>, qs |-> <<"modules", "=", "site">>],
      [path |-> <<"static", "/">>, qs |-> <<>>] }

StaticInputs ==
    { [path |-> <<"images", "/", "logo", ".", "png">>, qs |-> <<>>] }

(***************************************************************************)
(* Upstream: what requests.get can produce.                                *)
(***************************************************************************)

HtmlType == <<"text/html", ";", " ", "charset=UTF-8">>

StoredHtmlType == <<"text/html", ";", " ", "charset=utf-8">>

\* <a id=... href=...>text</a>
Anchor(id, href) == Tag("a", [id |-> <<id>>, href |-> href], <<"text">>)

\* <a id=... href="/wiki/Dog" class=...>text</a>
AnchorOfClass(id, class) ==
    Tag("a", [id |-> <<id>>, href |-> <<"/", "wiki", "/", "Dog">>, class |-> class], <<"text">>)

\* A page of anchors that are not media links.
LinkPage ==
    << Anchor("a1", <<"/", "wiki", "/", "Dog">>),
       Anchor("a2", <<"#", "cite">>),
       Anchor("a3", <<>>),
       Anchor("a4", <<" ">>),
       Anchor("a5", <<" ", "/", "wiki", "/", "Dog", " ">>),
       Anchor("a6", <<"javascript", ":", "void">>),
       Anchor("a7", <<"https", ":", "/", "/", "example", ".", "com", "/", "x">>),
       Anchor("a8", <<"Dog">>),
       Anchor("a9", <<"/", "/", "en", ".", "wikipedia", ".", "org", "/", "wiki", "/", "Dog">>),
       Anchor("a10", <<"?", "action", "=", "edit">>),
       Anchor("a11", <<"/", "wiki", "/", "Dog", "#", "History">>),
       Tag("a", [id |-> <<"a12">>], <<"text">>),
       AnchorOfClass("a13", <<"external", "text">>),
       Anchor("a14", <<"data", ":", "text", "/", "html">>),
       Anchor("a15", <<" ", "#", "top">>),
       AnchorOfClass("a16", <<"Image">>),
       Anchor("a17", <<"/", "wiki", "/", "file", ":", "Cat", ".", "jpg">>),
       Anchor("a18", <<"/", "w", "/", "index", ".", "php", "?", "title", "=", "File", ":",
                       "Cat", ".", "jpg">>) >>

\* A page of media links.
MediaPage ==
    << Anchor("m1", <<"/", "wiki", "/", "File", ":", "Cat", ".", "jpg">>),
       Anchor("m2", <<"/", "wiki", "/", "Media", ":", "Cat", ".", "ogg">>),
       Anchor("m3", <<"/", "wiki", "/", "Special", ":", "FilePath", "/", "Cat", ".", "jpg">>),
       Anchor("m4", <<"https", ":", "/", "/", "commons", ".", "wikimedia", ".", "org", "/", "x",
                      "/", "wiki", "/", "Special", ":", "FilePath", "/", "Cat", ".", "jpg">>),
       AnchorOfClass("m5", <<"image">>),
       AnchorOfClass("m6", <<"thumb">>),
       AnchorOfClass("m7", <<"thumbimage">>),
       AnchorOfClass("m8", <<"mwe-image">>),
       AnchorOfClass("m9", <<"mw-file-description">>),
       AnchorOfClass("m10", <<"external", "thumb">>),
       Tag("a", [id |-> <<"m11">>, href |-> <<"/", "wiki", "/", "Dog">>], <<"<img>">>),
       Tag("a", ("data-file" :> <<>>) @@ [id |-> <<"m12">>, href |-> <<"/", "wiki", "/", "Dog">>],
           <<"text">>),
       Anchor("m13", <<" ", "/", "wiki", "/", "File", ":", "Cat", ".", "jpg">>),
       Anchor("m14", <<"/", "wiki", "/", "Dog">>) >>

DataUrl == <<"data", ":", "image", "/", "png">>

ScriptUrl == <<"javascript", ":", "void">>

\* <meta id=... http-equiv=...>
Meta(id, http_equiv) == Tag("meta", ("http-equiv" :> http_equiv) @@ [id |-> <<id>>], <<>>)

\* A page of head elements, assets, media and forms.
AssetPage ==
    << Meta("h1", <<"Content-Security-Policy">>),
       Meta("h2", <<"x-frame-options">>),
       Meta("h3", <<"Refresh">>),
       Meta("h4", <<"content-type">>),
       Tag("meta", [id |-> <<"h5">>, name |-> <<"viewport">>], <<>>),
       Tag("base", [id |-> <<"h6">>, href |-> <<"https", ":", "/", "/", "evil", ".", "example",
                                                ".", "com", "/">>], <<>>),
       Tag("link", [id |-> <<"l1">>, href |-> DataUrl], <<>>),
       Tag("link", [id |-> <<"l2">>, href |-> ScriptUrl], <<>>),
       Tag("link", [id |-> <<"l3">>, href |-> <<"/", "static", "/", "style", ".", "css">>], <<>>),
       Tag("link", [id |-> <<"l4">>, href |-> <<"/", "w", "/", "load", ".", "php">>], <<>>),
       Tag("link", [id |-> <<"l5">>, href |-> <<"#", "x">>], <<>>),
       Tag("script", [id |-> <<"s1">>, src |-> DataUrl], <<>>),
       Tag("script", [id |-> <<"s2">>, src |-> ScriptUrl], <<>>),
       Tag("script", [id |-> <<"s3">>, src |-> <<"/", "w", "/", "x", ".", "js">>], <<>>),
       Tag("script", [id |-> <<"s4">>], <<"inline">>),
       Tag("img", [id |-> <<"i1">>, src |-> DataUrl, srcset |-> DataUrl \o <<" ", "1x">>], <<>>),
       Tag("img", [id |-> <<"i2">>,
                   src |-> <<"/", "/", "en", ".", "wikipedia", ".", "org", "/", "static", "/",
                             "a", ".", "png">>,
                   srcset |-> <<"/", "/", "EN", ".", "Wikipedia", ".", "ORG", "/", "static", "/",
                                "a", ".", "png", " ", "1x", ",", "/", "/", "upload", ".",
                                "wikimedia", ".", "org", "/", "b", ".", "png", " ", " ", "2x">>],
           <<>>),
       Tag("img", [id |-> <<"i3">>, src |-> UploadUrl], <<>>),
       Tag("source", [id |-> <<"i4">>, src |-> ScriptUrl, srcset |-> ScriptUrl], <<>>),
       Tag("video", [id |-> <<"i5">>, src |-> DataUrl], <<>>),
       Tag("audio", [id |-> <<"i6">>,
                     src |-> <<"https", ":", "/", "/", "www", ".", "wikipedia", ".", "org",
                               "/", "static", "/", "a", ".", "ogg", "?", "v", "=", "1">>], <<>>),
       Tag("form", [id |-> <<"f1">>, action |-> <<"/", "w", "/", "index", ".", "php">>], <<>>),
       Tag("form", [id |-> <<"f2">>, action |-> ScriptUrl], <<>>),
       Tag("form", [id |-> <<"f3">>, action |-> DataUrl], <<>>),
       Tag("form", [id |-> <<"f4">>], <<>>),
       Anchor("f5", ScriptUrl),
       Anchor("f6", DataUrl),
       Anchor("f7", <<"#", "top">>) >>

Pages == <<LinkPage, MediaPage, AssetPage>>

\* The elements of the page served at version v, beyond those every version has.
PageElements == [v \in (MaxVersion + 1)..(MaxVersion + Len(Pages)) |-> Pages[v - MaxVersion]]

\* The page upstream serves at content version v.
UpstreamDoc(v) ==
    <<Tag("base", <<>>, <<>>), Tag("p", <<>>, <<ToString(v)>>)>>
    \o (IF v \in DOMAIN PageElements THEN PageElements[v] ELSE <<>>)

ETagOf(v) == <<"W/", ToString(v)>>

LastModifiedOf(v) == <<"modified", ToString(v)>>

Statuses == {200, 404}

\* The responses upstream may give to a GET at content version v; conditional
\* says whether If-None-Match or If-Modified-Since was sent.
UpstreamResponses(v, conditional) ==
    LET validators == { [etag |-> <<>>, last_modified |-> <<>>],
                        [etag |-> ETagOf(v), last_modified |-> LastModifiedOf(v)] }
    IN  { [kind |-> "error", status_code |-> 0, content_type |-> <<>>, text |-> <<>>,
           etag |-> <<>>, last_modified |-> <<>>] }
        \cup
        { [kind |-> "ok", status_code |-> st, content_type |-> HtmlType,
           text |-> UpstreamDoc(v), etag |-> h.etag, last_modified |-> h.last_modified] :
            st \in Statuses, h \in validators }
        \cup
        { [kind |-> "ok", status_code |-> 200, content_type |-> <<"image/png">>,
           text |-> <<Text("bytes")>>, etag |-> <<>>, last_modified |-> <<>>],
          [kind |-> "ok", status_code |-> 404, content_type |-> <<>>,
           text |-> <<Text("bytes")>>, etag |-> <<>>, last_modified |-> <<>>] }
        \cup
        IF conditional
        THEN { [kind |-> "ok", status_code |-> 304, content_type |-> <<>>, text |-> <<>>,
                etag |-> h.etag, last_modified |-> h.last_modified] : h \in validators }
        ELSE {}

(***************************************************************************)
(* State.                                                                  *)
(***************************************************************************)

VARIABLES
    wikiBase,   \* WIKI_BASE
    supabase,   \* TRUE when the store client was created at start-up
    store,      \* the cache table: cache_key -> row
    ticks,      \* the clock, in steps of CACHE_TTL_MIN_SECONDS
    version,    \* the content version upstream serves
    started,    \* requests started so far
    req         \* per worker: the request it is handling

vars == <<wikiBase, supabase, store, ticks, version, started, req>>

\* utcnow()
utcnow == ticks * CACHE_TTL_MIN_SECONDS

IdleReq ==
    [pc |-> "idle", endpoint |-> "", target |-> <<>>, lang_key |-> <<>>,
     canonical_target |-> <<>>, now |-> 0, wants_cache |-> FALSE, cache_key |-> <<>>,
     entry |-> <<>>, resp |-> <<>>, row |-> <<>>, pending |-> <<>>, response |-> <<>>,
     allow |-> <<>>, fetched |-> <<>>, upserted |-> <<>>, log |-> <<>>,
     get_failed |-> FALSE, upsert_failed |-> FALSE, store0 |-> <<>>,
     raw_url |-> <<>>, hops |-> 0]

\* Rows an earlier run of the proxy (possibly under other TTL settings) or another
\* writer left in the table for the page CatUrl, language "en".
InitTtls == {<<>>, <<0>>, <<-5>>, <<300>>, <<600>>, <<86400>>}

InitRow(st, val, ttl, nr) ==
      [cache_key |-> compute_cache_key(CatUrl, <<"en">>),
       url |-> CatUrl,
       lang_key |-> <<"en">>,
       rewrite_version |-> CACHE_REWRITE_VERSION,
       status |-> <<st>>,
       content_type |-> StoredHtmlType,
       body |-> rewrite_links(UpstreamDoc(0), CatUrl),
       body_sha256 |-> sha256_hex(rewrite_links(UpstreamDoc(0), CatUrl)),
       etag |-> IF val THEN ETagOf(0) ELSE <<>>,
       last_modified |-> IF val THEN LastModifiedOf(0) ELSE <<>>,
       ttl_seconds |-> ttl,
       next_refresh_at |-> nr,
       fetched_at |-> to_iso8601_z(0 - 2 * CACHE_TTL_MIN_SECONDS),
       last_checked_at |-> to_iso8601_z(0 - CACHE_TTL_MIN_SECONDS),
       last_changed_at |-> to_iso8601_z(0 - 2 * CACHE_TTL_MIN_SECONDS)]

\* Stale rows with every TTL, and rows still fresh at the start.
InitRows ==
    { InitRow(st, val, ttl, to_iso8601_z(0)) :
        st \in Statuses, val \in BOOLEAN, ttl \in InitTtls }
    \cup
    { InitRow(st, val, <<CACHE_TTL_MIN_SECONDS>>, <<CACHE_TTL_MIN_SECONDS, "+00:00">>) :
        st \in Statuses, val \in BOOLEAN }

Init ==
    /\ wikiBase \in {DefaultWikiBase, OtherWikiBase}
    /\ supabase \in BOOLEAN
    /\ store \in {<<>>} \cup
                 (IF supabase /\ wikiBase = DefaultWikiBase
                  THEN { (r.cache_key :> r) : r \in InitRows } ELSE {})
    /\ ticks = 0
    /\ version = 0
    /\ started = 0
    /\ req = [w \in Workers |-> IdleReq]

(***************************************************************************)
(* Responses.                                                              *)
(***************************************************************************)

\* html_response (mobile, lines 634-641); cache_state <<>> means no X-WikiPro-Cache
html_response(body, status, cache_state) ==
    [status |-> status, body |-> body, content_type |-> StoredHtmlType,
     cache_state |-> cache_state]

\* Response(resp.content, status=..., headers={"Content-Type": ... or octet-stream})
raw_response(content, status, content_type) ==
    [status |-> status, body |-> content,
     content_type |-> IF content_type = <<>> THEN <<"application/octet-stream">>
                      ELSE content_type,
     cache_state |-> <<>>]

\* Response("...", status=...): a short plain-text reply
text_response(text, status) ==
    [status |-> status, body |-> <<Text(text)>>, content_type |-> StoredHtmlType,
     cache_state |-> <<>>]

\* The request r finished with response rsp.
Respond(r, rsp) ==
    [r EXCEPT !.pc = "done", !.response = <<rsp>>, !.log = Append(r.log, "respond")]

(***************************************************************************)
(* Cache store adapter.                                                    *)
(***************************************************************************)

\* cache_get: the row, or <<>> when there is none or the store raised
cache_get(cache_key, fails) ==
    IF ~supabase \/ fails THEN <<>>
    ELSE IF cache_key \in DOMAIN store THEN <<store[cache_key]>> ELSE <<>>

\* cache_upsert that keeps the row already stored under the key.
CacheInsertIfAbsent(row, fails) ==
    IF ~supabase \/ fails THEN store
    ELSE IF row.cache_key \in DOMAIN store THEN store
    ELSE (row.cache_key :> row) @@ store

\* cache_upsert: the table afterwards
cache_upsert(row, fails) ==
    IF ~supabase \/ fails THEN store
    ELSE (row.cache_key :> row) @@ store

(***************************************************************************)
(* /m : mobile()                                                           *)
(***************************************************************************)

\* Lines 590-605: the fetch target of a /m request.
MobileTarget(in) ==
    IF in.url # <<>>
    THEN IF in.url[1] = "/" THEN absolutize(wikiBase, in.url)
         ELSE unwrap_proxy_url(in.url, ServerHost, wikiBase)
    ELSE IF in.path # <<>> THEN absolutize(wikiBase, in.path)
    ELSE wikiBase

\* entry and entry.get("body")
Usable(entry) == entry # <<>> /\ entry[1].body # <<>>

\* Fresh with the comparison the wrong way round.
FreshInverted(entry, now) ==
    /\ Usable(entry)
    /\ entry[1].next_refresh_at # <<>>
    /\ parse_iso8601(entry[1].next_refresh_at) # <<>>
    /\ now > parse_iso8601(entry[1].next_refresh_at)[1]

\* Lines 644-646: a usable entry whose next_refresh_at lies after now.
Fresh(entry, now) ==
    /\ Usable(entry)
    /\ entry[1].next_refresh_at # <<>>
    /\ parse_iso8601(entry[1].next_refresh_at) # <<>>
    /\ now < parse_iso8601(entry[1].next_refresh_at)[1]

\* Lines 656-659: a conditional header is sent.
Conditional(entry) ==
    Usable(entry) /\ (entry[1].etag # <<>> \/ entry[1].last_modified # <<>>)

\* x or y on strings
OrStr(x, y) == IF x # <<>> THEN x ELSE y

\* Row304 that never lets the TTL grow.
Row304NoGrow(r, e, resp) ==
    LET cached_status == OrInt(e.status, 200)
        ttl == next_ttl_seconds(e.ttl_seconds, FALSE)
    IN  [cache_key |-> r.cache_key,
         url |-> r.canonical_target,
         lang_key |-> r.lang_key,
         rewrite_version |-> CACHE_REWRITE_VERSION,
         status |-> <<cached_status>>,
         content_type |-> OrStr(e.content_type, StoredHtmlType),
         body |-> e.body,
         body_sha256 |-> OrStr(e.body_sha256, sha256_hex(e.body)),
         etag |-> OrStr(resp.etag, e.etag),
         last_modified |-> OrStr(resp.last_modified, e.last_modified),
         ttl_seconds |-> <<ttl>>,
         next_refresh_at |-> to_iso8601_z(r.now + ttl),
         fetched_at |-> OrStr(e.fetched_at, to_iso8601_z(r.now)),
         last_checked_at |-> to_iso8601_z(r.now),
         last_changed_at |-> OrStr(e.last_changed_at, OrStr(e.fetched_at, to_iso8601_z(r.now)))]

\* Row304 that lets the TTL grow whatever the stored status.
Row304AlwaysGrow(r, e, resp) ==
    LET cached_status == OrInt(e.status, 200)
        ttl == next_ttl_seconds(e.ttl_seconds, TRUE)
    IN  [cache_key |-> r.cache_key,
         url |-> r.canonical_target,
         lang_key |-> r.lang_key,
         rewrite_version |-> CACHE_REWRITE_VERSION,
         status |-> <<cached_status>>,
         content_type |-> OrStr(e.content_type, StoredHtmlType),
         body |-> e.body,
         body_sha256 |-> OrStr(e.body_sha256, sha256_hex(e.body)),
         etag |-> OrStr(resp.etag, e.etag),
         last_modified |-> OrStr(resp.last_modified, e.last_modified),
         ttl_seconds |-> <<ttl>>,
         next_refresh_at |-> to_iso8601_z(r.now + ttl),
         fetched_at |-> OrStr(e.fetched_at, to_iso8601_z(r.now)),
         last_checked_at |-> to_iso8601_z(r.now),
         last_changed_at |-> OrStr(e.last_changed_at, OrStr(e.fetched_at, to_iso8601_z(r.now)))]

\* Lines 675-699: the row written after a 304.
Row304(r, e, resp) ==
    LET cached_status == OrInt(e.status, 200)
        ttl == next_ttl_seconds(e.ttl_seconds, cached_status = 200)
    IN  [cache_key |-> r.cache_key,
         url |-> r.canonical_target,
         lang_key |-> r.lang_key,
         rewrite_version |-> CACHE_REWRITE_VERSION,
         status |-> <<cached_status>>,
         content_type |-> OrStr(e.content_type, StoredHtmlType),
         body |-> e.body,
         body_sha256 |-> OrStr(e.body_sha256, sha256_hex(e.body)),
         etag |-> OrStr(resp.etag, e.etag),
         last_modified |-> OrStr(resp.last_modified, e.last_modified),
         ttl_seconds |-> <<ttl>>,
         next_refresh_at |-> to_iso8601_z(r.now + ttl),
         fetched_at |-> OrStr(e.fetched_at, to_iso8601_z(r.now)),
         last_checked_at |-> to_iso8601_z(r.now),
         last_changed_at |-> OrStr(e.last_changed_at, OrStr(e.fetched_at, to_iso8601_z(r.now)))]

\* Unchanged comparing the new hash with the stored body instead of the stored hash.
UnchangedVsBody(e, resp, body_hash) ==
    /\ resp.status_code = 200
    /\ OrInt(e.status, 0) = 200
    /\ e.body_sha256 # <<>>
    /\ body_hash = e.body

\* Unchanged without the comparison of the hashes.
UnchangedIgnoreHash(e, resp, body_hash) ==
    /\ resp.status_code = 200
    /\ OrInt(e.status, 0) = 200
    /\ e.body_sha256 # <<>>

\* Lines 717-722: the revalidated page is the stored one.
Unchanged(e, resp, body_hash) ==
    /\ resp.status_code = 200
    /\ OrInt(e.status, 0) = 200
    /\ e.body_sha256 # <<>>
    /\ body_hash = e.body_sha256

\* RowRevalidated that keeps the stored hash beside the new body.
RowRevalidatedKeepsHash(r, e, resp) ==
    LET Row(replaced, body_hash, unchanged, ttl) ==
            [cache_key |-> r.cache_key,
             url |-> r.canonical_target,
             lang_key |-> r.lang_key,
             rewrite_version |-> CACHE_REWRITE_VERSION,
             status |-> <<resp.status_code>>,
             content_type |-> StoredHtmlType,
             body |-> replaced,
             body_sha256 |-> e.body_sha256,
             etag |-> resp.etag,
             last_modified |-> resp.last_modified,
             ttl_seconds |-> <<ttl>>,
             next_refresh_at |-> to_iso8601_z(r.now + ttl),
             fetched_at |-> to_iso8601_z(r.now),
             last_checked_at |-> to_iso8601_z(r.now),
             last_changed_at |-> IF unchanged THEN e.last_changed_at ELSE to_iso8601_z(r.now)]
        Timed(replaced, body_hash, unchanged, ttl0) ==
            Row(replaced, body_hash, unchanged,
                IF ~unchanged THEN CACHE_TTL_MIN_SECONDS ELSE ttl0)
        Compared(replaced, body_hash, unchanged) ==
            Timed(replaced, body_hash, unchanged, next_ttl_seconds(e.ttl_seconds, unchanged))
        Hashed(replaced, body_hash) ==
            Compared(replaced, body_hash, Unchanged(e, resp, body_hash))
        Replaced(replaced) == Hashed(replaced, sha256_hex(replaced))
    IN  Replaced(rewrite_links(resp.text, r.target))

\* Lines 714-746: the row written after a revalidation that returned HTML.
RowRevalidated(r, e, resp) ==
    LET Row(replaced, body_hash, unchanged, ttl) ==
            [cache_key |-> r.cache_key,
             url |-> r.canonical_target,
             lang_key |-> r.lang_key,
             rewrite_version |-> CACHE_REWRITE_VERSION,
             status |-> <<resp.status_code>>,
             content_type |-> StoredHtmlType,
             body |-> replaced,
             body_sha256 |-> body_hash,
             etag |-> resp.etag,
             last_modified |-> resp.last_modified,
             ttl_seconds |-> <<ttl>>,
             next_refresh_at |-> to_iso8601_z(r.now + ttl),
             fetched_at |-> to_iso8601_z(r.now),
             last_checked_at |-> to_iso8601_z(r.now),
             last_changed_at |-> IF unchanged THEN e.last_changed_at ELSE to_iso8601_z(r.now)]
        Timed(replaced, body_hash, unchanged, ttl0) ==
            Row(replaced, body_hash, unchanged,
                IF ~unchanged THEN CACHE_TTL_MIN_SECONDS ELSE ttl0)
        Compared(replaced, body_hash, unchanged) ==
            Timed(replaced, body_hash, unchanged, next_ttl_seconds(e.ttl_seconds, unchanged))
        Hashed(replaced, body_hash) ==
            Compared(replaced, body_hash, Unchanged(e, resp, body_hash))
        Replaced(replaced) == Hashed(replaced, sha256_hex(replaced))
    IN  Replaced(rewrite_links(resp.text, r.target))

\* Lines 778-796: the row written after a miss.
RowMiss(r, resp) ==
    LET Row(replaced, ttl) ==
            [cache_key |-> r.cache_key,
             url |-> r.canonical_target,
             lang_key |-> r.lang_key,
             rewrite_version |-> CACHE_REWRITE_VERSION,
             status |-> <<resp.status_code>>,
             content_type |-> StoredHtmlType,
             body |-> replaced,
             body_sha256 |-> sha256_hex(replaced),
             etag |-> resp.etag,
             last_modified |-> resp.last_modified,
             ttl_seconds |-> <<ttl>>,
             next_refresh_at |-> to_iso8601_z(r.now + ttl),
             fetched_at |-> to_iso8601_z(r.now),
             last_checked_at |-> to_iso8601_z(r.now),
             last_changed_at |-> to_iso8601_z(r.now)]
    IN  Row(rewrite_links(resp.text, r.target), CACHE_TTL_MIN_SECONDS)

\* The request goes on to cache_upsert(row) and then returns rsp.
ThenUpsert(r, row, rsp) ==
    [r EXCEPT !.pc = "upsert", !.row = <<row>>, !.pending = <<rsp>>]

\* AfterRevalidate that refreshes the row when upstream cannot be reached.
AfterRevalidateTouchOnError(r, e, resp) ==
    IF resp.kind = "error"
    THEN ThenUpsert(r, Row304(r, e, resp),
                    html_response(e.body, OrInt(e.status, 200), <<"STALE">>))
    ELSE IF resp.status_code = 304
    THEN ThenUpsert(r, Row304(r, e, resp),
                    html_response(e.body, OrInt(e.status, 200), <<"REVALIDATED">>))
    ELSE IF ~Contains(resp.content_type, <<"text/html">>)
    THEN Respond(r, raw_response(resp.text, resp.status_code, resp.content_type))
    ELSE LET Written(row) ==
                 ThenUpsert(r, row,
                     html_response(row.body, resp.status_code,
                         IF Unchanged(e, resp, row.body_sha256)
                         THEN <<"UNCHANGED">> ELSE <<"REFRESH">>))
         IN  Written(RowRevalidated(r, e, resp))

\* AfterRevalidate without the content-type test.
AfterRevalidateNoBypass(r, e, resp) ==
    IF resp.kind = "error"
    THEN Respond(r, html_response(e.body, OrInt(e.status, 200), <<"STALE">>))
    ELSE IF resp.status_code = 304
    THEN ThenUpsert(r, Row304(r, e, resp),
                    html_response(e.body, OrInt(e.status, 200), <<"REVALIDATED">>))
    ELSE LET Written(row) ==
                 ThenUpsert(r, row,
                     html_response(row.body, resp.status_code,
                         IF Unchanged(e, resp, row.body_sha256)
                         THEN <<"UNCHANGED">> ELSE <<"REFRESH">>))
         IN  Written(RowRevalidated(r, e, resp))

\* Lines 653-752: a usable stale entry e was read; upstream answered resp.
AfterRevalidate(r, e, resp) ==
    IF resp.kind = "error"
    THEN Respond(r, html_response(e.body, OrInt(e.status, 200), <<"STALE">>))
    ELSE IF resp.status_code = 304
    THEN ThenUpsert(r, Row304(r, e, resp),
                    html_response(e.body, OrInt(e.status, 200), <<"REVALIDATED">>))
    ELSE IF ~Contains(resp.content_type, <<"text/html">>)
    THEN Respond(r, raw_response(resp.text, resp.status_code, resp.content_type))
    ELSE LET Written(row) ==
                 ThenUpsert(r, row,
                     html_response(row.body, resp.status_code,
                         IF Unchanged(e, resp, row.body_sha256)
                         THEN <<"UNCHANGED">> ELSE <<"REFRESH">>))
         IN  Written(RowRevalidated(r, e, resp))

\* AfterMiss that marks every HTML answer MISS.
AfterMissAlwaysMarked(r, resp) ==
    IF resp.kind = "error"
    THEN Respond(r, text_response("Upstream fetch error", 502))
    ELSE IF ~Contains(resp.content_type, <<"text/html">>)
    THEN Respond(r, raw_response(resp.text, resp.status_code, resp.content_type))
    ELSE LET Written(row) ==
                 ThenUpsert(r, row, html_response(row.body, resp.status_code, <<"MISS">>))
         IN  IF r.wants_cache /\ r.cache_key # <<>>
             THEN Written(RowMiss(r, resp))
             ELSE Respond(r, html_response(rewrite_links(resp.text, r.target),
                                           resp.status_code, <<"MISS">>))

\* Lines 754-801: no usable entry; upstream answered resp.
AfterMiss(r, resp) ==
    IF resp.kind = "error"
    THEN Respond(r, text_response("Upstream fetch error", 502))
    ELSE IF ~Contains(resp.content_type, <<"text/html">>)
    THEN Respond(r, raw_response(resp.text, resp.status_code, resp.content_type))
    ELSE LET Written(row) ==
                 ThenUpsert(r, row, html_response(row.body, resp.status_code, <<"MISS">>))
         IN  IF r.wants_cache /\ r.cache_key # <<>>
             THEN Written(RowMiss(r, resp))
             ELSE Respond(r, html_response(rewrite_links(resp.text, r.target),
                                           resp.status_code,
                                           IF r.wants_cache THEN <<"MISS">> ELSE <<>>))

\* Worker w is free to take a request.
CanStart(w) ==
    /\ req[w].pc = "idle"
    /\ started < MaxRequests

\* Lines 586-631: a /m request arrives; target resolution, scheme and host checks.
MStart(w, in) ==
    /\ CanStart(w)
    /\ started' = started + 1
    /\ LET \* lines 629-631: now, wants_cache and the cache key
           Admitted(r1, canonical_target, lang_key, wants_cache) ==
               [r1 EXCEPT !.lang_key = lang_key,
                          !.canonical_target = canonical_target,
                          !.now = utcnow,
                          !.wants_cache = wants_cache,
                          !.cache_key = IF wants_cache
                                        THEN compute_cache_key(canonical_target, lang_key)
                                        ELSE <<>>,
                          !.pc = IF wants_cache THEN "get" ELSE "fetch"]
           Checked(r0, host, ok) ==
               [r0 EXCEPT !.allow = <<[host |-> host, ok |-> ok]>>, !.log = <<"allow">>]
           \* lines 607-613: the scheme and host checks
           Resolved(target, parsed, r0) ==
               IF parsed.scheme \notin {<<"http">>, <<"https">>}
               THEN Respond(r0, text_response("Invalid scheme.", 400))
               ELSE IF ~is_allowed_wikimedia_host(parsed.netloc)
               THEN Respond(Checked(r0, parsed.netloc, FALSE),
                            text_response("Host not allowed.", 403))
               ELSE Admitted(Checked(r0, parsed.netloc, TRUE),
                             canonicalize_url_for_cache(target),
                             lang_key_from_accept_language(in.al),
                             supabase /\ is_cacheable_html_target(parsed))
           Target(target) ==
               Resolved(target, urlparse(target),
                        [IdleReq EXCEPT !.endpoint = "m", !.target = target,
                                        !.store0 = store])
       IN  req' = [req EXCEPT ![w] = Target(MobileTarget(in))]
    /\ UNCHANGED <<wikiBase, supabase, store, ticks, version>>

\* MGet in which a failure of the store ends the request with an error.
MGetRaises(w) ==
    /\ req[w].pc = "get"
    /\ \E fails \in BOOLEAN :
         LET entry == cache_get(req[w].cache_key, fails)
             r1 == [req[w] EXCEPT !.entry = entry, !.log = Append(@, "get"),
                                  !.get_failed = fails]
         IN  req' = [req EXCEPT ![w] =
               IF fails THEN Respond(r1, text_response("Internal Server Error", 500))
               ELSE IF Fresh(entry, r1.now)
               THEN Respond(r1, html_response(entry[1].body, OrInt(entry[1].status, 200),
                                              <<"HIT">>))
               ELSE [r1 EXCEPT !.pc = "fetch"]]
    /\ UNCHANGED <<wikiBase, supabase, store, ticks, version, started>>

\* Lines 632-651: cache_get, then the fresh-hit test.
MGet(w) ==
    /\ req[w].pc = "get"
    /\ \E fails \in BOOLEAN :
         LET entry == cache_get(req[w].cache_key, fails)
             r1 == [req[w] EXCEPT !.entry = entry, !.log = Append(@, "get"),
                                  !.get_failed = fails]
         IN  req' = [req EXCEPT ![w] =
               IF Fresh(entry, r1.now)
               THEN Respond(r1, html_response(entry[1].body, OrInt(entry[1].status, 200),
                                              <<"HIT">>))
               ELSE [r1 EXCEPT !.pc = "fetch"]]
    /\ UNCHANGED <<wikiBase, supabase, store, ticks, version, started>>

\* Lines 653-801: requests.get(target), then the branch on its outcome.
MFetch(w) ==
    /\ req[w].pc = "fetch"
    /\ req[w].endpoint = "m"
    /\ \E resp \in UpstreamResponses(version, Conditional(req[w].entry)) :
         LET r == req[w]
             r1 == [r EXCEPT !.resp = <<resp>>,
                             !.fetched = <<[url |-> r.target,
                                            if_none_match |->
                                                IF Usable(r.entry) THEN r.entry[1].etag ELSE <<>>,
                                            if_modified_since |->
                                                IF Usable(r.entry) THEN r.entry[1].last_modified
                                                ELSE <<>>]>>,
                             !.log = Append(@, "fetch")]
         IN  req' = [req EXCEPT ![w] =
               IF Usable(r.entry) THEN AfterRevalidate(r1, r.entry[1], resp)
               ELSE AfterMiss(r1, resp)]
    /\ UNCHANGED <<wikiBase, supabase, store, ticks, version, started>>

\* MUpsert that commits the response before it calls cache_upsert.
MUpsertAfterResponse(w) ==
    /\ req[w].pc = "upsert"
    /\ \E fails \in BOOLEAN :
         /\ store' = cache_upsert(req[w].row[1], fails)
         /\ req' = [req EXCEPT ![w] =
               [Respond(req[w], req[w].pending[1])
                  EXCEPT !.upserted = req[w].row, !.log = Append(@, "upsert"),
                         !.upsert_failed = fails]]
    /\ UNCHANGED <<wikiBase, supabase, ticks, version, started>>

\* Lines 700-701, 747-752, 797-801: cache_upsert(row), then the response.
MUpsert(w) ==
    /\ req[w].pc = "upsert"
    /\ \E fails \in BOOLEAN :
         /\ store' = cache_upsert(req[w].row[1], fails)
         /\ req' = [req EXCEPT ![w] =
               Respond([req[w] EXCEPT !.upserted = req[w].row, !.log = Append(@, "upsert"),
                                      !.upsert_failed = fails],
                       req[w].pending[1])]
    /\ UNCHANGED <<wikiBase, supabase, ticks, version, started>>

(***************************************************************************)
(* /i, /static/{path} and /{path}                                          *)
(***************************************************************************)

\* Lines 838-850: proxy_image up to its fetch.
IStart(w, raw_url) ==
    /\ CanStart(w)
    /\ started' = started + 1
    /\ LET r0 == [IdleReq EXCEPT !.endpoint = "i", !.store0 = store, !.raw_url = raw_url]
           Checked(target, host, ok) ==
               [r0 EXCEPT !.target = target, !.allow = <<[host |-> host, ok |-> ok]>>,
                          !.log = <<"allow">>]
           Resolved(target, parsed) ==
               IF parsed.scheme \notin {<<"http">>, <<"https">>}
               THEN Respond([r0 EXCEPT !.target = target],
                            text_response("Invalid scheme", 400))
               ELSE IF ~is_allowed_wikimedia_host(parsed.netloc)
               THEN Respond(Checked(target, parsed.netloc, FALSE),
                            text_response("Host not allowed", 403))
               ELSE [Checked(target, parsed.netloc, TRUE) EXCEPT !.pc = "fetch"]
           Target(target) == Resolved(target, urlparse(target))
       IN  req' = [req EXCEPT ![w] =
             IF raw_url = <<>> THEN Respond(r0, text_response("Missing url", 400))
             ELSE Target(unwrap_proxy_url(raw_url, ServerHost, wikiBase))]
    /\ UNCHANGED <<wikiBase, supabase, store, ticks, version>>

\* base + (("?" + qs) if qs else "")
WithQuery(base, qs) == IF qs # <<>> THEN base \o <<"?">> \o qs ELSE base

\* Lines 873-879: proxy_static up to its fetch.
SStart(w, in) ==
    /\ CanStart(w)
    /\ started' = started + 1
    /\ req' = [req EXCEPT ![w] =
          [IdleReq EXCEPT !.endpoint = "static", !.pc = "fetch", !.store0 = store,
             !.target = WithQuery(urljoin(DesktopOrigin, <<"/", "static", "/">> \o in.path),
                                  in.qs)]]
    /\ UNCHANGED <<wikiBase, supabase, store, ticks, version>>

\* Lines 804-814: passthrough up to its fetch.
PStart(w, in) ==
    /\ CanStart(w)
    /\ started' = started + 1
    /\ LET base == IF StartsWith(in.path, <<"static", "/">>)
                   THEN urljoin(DesktopOrigin, <<"/">> \o in.path)
                   ELSE absolutize(wikiBase, <<"/">> \o in.path)
       IN  req' = [req EXCEPT ![w] =
             [IdleReq EXCEPT !.endpoint = "passthrough", !.pc = "fetch", !.store0 = store,
                             !.target = WithQuery(base, in.qs)]]
    /\ UNCHANGED <<wikiBase, supabase, store, ticks, version>>

\* Lines 821-835, 856-870, 885-899: requests.get(target) and the streamed reply.
PFetch(w) ==
    /\ req[w].pc = "fetch"
    /\ req[w].endpoint \in {"i", "static", "passthrough"}
    /\ \E resp \in UpstreamResponses(version, FALSE) :
         LET r1 == [req[w] EXCEPT !.resp = <<resp>>,
                                  !.fetched = <<[url |-> req[w].target, if_none_match |-> <<>>,
                                                 if_modified_since |-> <<>>]>>,
                                  !.log = Append(@, "fetch")]
         IN  req' = [req EXCEPT ![w] =
               IF resp.kind = "error"
               THEN Respond(r1, text_response("Upstream fetch error", 502))
               ELSE Respond(r1, raw_response(resp.text, resp.status_code, resp.content_type))]
    /\ UNCHANGED <<wikiBase, supabase, store, ticks, version, started>>

(***************************************************************************)
(* Environment.                                                            *)
(***************************************************************************)

\* The response has been sent; the worker takes the next request.
Finish(w) ==
    /\ req[w].pc = "done"
    /\ req' = [req EXCEPT ![w] = IdleReq]
    /\ UNCHANGED <<wikiBase, supabase, store, ticks, version, started>>

\* Time passes.
Tick ==
    /\ ticks < MaxTicks
    /\ ticks' = ticks + 1
    /\ UNCHANGED <<wikiBase, supabase, store, version, started, req>>

\* The page is edited upstream.
Edit ==
    /\ version < MaxVersion
    /\ version' = version + 1
    /\ UNCHANGED <<wikiBase, supabase, store, ticks, started, req>>

\* Requests served one at a time: a request is taken when no other is in progress.
SeqTurn(w) == \A v \in Workers : req[v].pc = "idle" /\ v >= w

\* Requests served in parallel: a request goes to the lowest free worker.
ConcTurn(w) == \A v \in Workers : v < w => req[v].pc # "idle"

Next ==
    \/ \E w \in Workers : \E in \in MobileInputs : SeqTurn(w) /\ MStart(w, in)
    \/ \E w \in Workers : MGet(w)
    \/ \E w \in Workers : MFetch(w)
    \/ \E w \in Workers : MUpsert(w)
    \/ \E w \in Workers : \E u \in ImageInputs : SeqTurn(w) /\ IStart(w, u)
    \/ \E w \in Workers : \E in \in StaticInputs : SeqTurn(w) /\ SStart(w, in)
    \/ \E w \in Workers : \E in \in PathInputs : SeqTurn(w) /\ PStart(w, in)
    \/ \E w \in Workers : PFetch(w)
    \/ \E w \in Workers : Finish(w)
    \/ Tick
    \/ Edit

\* Every endpoint, every input, requests served one after another.
Spec == Init /\ [][Next]_vars

\* Parallel /m requests for one page.
ConcInputs == { [url |-> <<>>, path |-> <<"/", "wiki", "/", "Cat">>, al |-> <<>>] }

InitConc ==
    /\ wikiBase = DefaultWikiBase
    /\ supabase = TRUE
    /\ store \in {<<>>} \cup
                 { (r.cache_key :> r) :
                     r \in { InitRow(st, TRUE, ttl, to_iso8601_z(0)) :
                               st \in Statuses, ttl \in InitTtls } }
    /\ ticks = 0
    /\ version = 0
    /\ started = 0
    /\ req = [w \in Workers |-> IdleReq]

NextConc ==
    \/ \E w \in Workers : \E in \in ConcInputs : ConcTurn(w) /\ MStart(w, in)
    \/ \E w \in Workers : MGet(w)
    \/ \E w \in Workers : MFetch(w)
    \/ \E w \in Workers : MUpsert(w)
    \/ \E w \in Workers : Finish(w)
    \/ Tick
    \/ Edit

SpecConc == InitConc /\ [][NextConc]_vars

\* /m requests for cacheable and other paths, one of them with a trailing blank
\* (GET /m?url=https://en.m.wikipedia.org/w/index.php%20).
CacheInputs ==
    { [url |-> <<>>, path |-> <<"/", "wiki", "/", "Cat">>, al |-> <<>>],
      [url |-> <<>>, path |-> <<>>, al |-> <<>>],
      [url |-> <<"/", "w", "/", "load", ".", "php">>, path |-> <<>>, al |-> <<>>],
      [url |-> DefaultWikiBase \o <<"/", "w", "/", "index", ".", "php", " ">>,
       path |-> <<>>, al |-> <<>>],
      [url |-> <<"https", ":", "/", "/", "evil", ".", "example", ".", "com", "/", "wiki", "/", "Cat">>,
       path |-> <<>>, al |-> <<>>] }

InitCache ==
    /\ wikiBase = DefaultWikiBase
    /\ supabase = TRUE
    /\ store \in {<<>>} \cup
                 { (r.cache_key :> r) :
                     r \in { InitRow(200, val, <<CACHE_TTL_MIN_SECONDS>>, to_iso8601_z(0)) :
                               val \in BOOLEAN } }
    /\ ticks = 0
    /\ version = 0
    /\ started = 0
    /\ req = [w \in Workers |-> IdleReq]

NextCache ==
    \/ \E w \in Workers : \E in \in CacheInputs : SeqTurn(w) /\ MStart(w, in)
    \/ \E w \in Workers : MGet(w)
    \/ \E w \in Workers : MFetch(w)
    \/ \E w \in Workers : MUpsert(w)
    \/ \E w \in Workers : Finish(w)
    \/ Tick
    \/ Edit

\* /m requests one after another, for paths inside and outside the cache.
SpecCache == InitCache /\ [][NextCache]_vars

\* Deepest nesting of self-referential wrappers among the inputs.
MaxNest == 9

\* "http://<host>/<ep>?<param>=", the front of a proxy URL
Wrapper(host, ep, param) == <<"http", ":", "/", "/">> \o host \o <<"/", ep, "?", param, "=">>

\* n wrappers of this server around inner, by turns under its two names and as /m and /i
RECURSIVE Nest(_, _)
Nest(n, inner) ==
    IF n = 0 THEN inner
    ELSE Wrapper(IF n % 2 = 0 THEN ServerHost ELSE <<"127", ".", "0", ".", "0", ".", "1", ":", "5000">>,
                 IF n % 3 = 0 THEN "i" ELSE "m", "url")
         \o Nest(n - 1, inner)

\* url arguments that point back to this server, with the number of wrappers they nest
SelfInputs ==
    { [url |-> Nest(n, inner), depth |-> n] : n \in 0..MaxNest, inner \in {CatUrl, UploadUrl} }
    \cup
    { [url |-> SelfM \o make_proxy_url(SelfM \o make_proxy_url(CatUrl)), depth |-> 2],
      [url |-> Wrapper(<<"LOCALHOST", ":", "5000">>, "i", "url") \o quote(UploadUrl), depth |-> 1],
      [url |-> Wrapper(<<"[", ":", ":", "1", "]", ":", "5000">>, "m", "url") \o CatUrl, depth |-> 1],
      [url |-> Wrapper(<<"0", ".", "0", ".", "0", ".", "0", ":", "5000">>, "m", "path")
               \o <<"%2F", "wiki", "%2F", "Dog">>, depth |-> 1],
      [url |-> Wrapper(ServerHost, "m", "path") \o <<"/", "wiki", "/", "Dog", "&", "url", "=">>
               \o UploadUrl, depth |-> 1],
      [url |-> <<"http", ":", "/", "/">> \o ServerHost
               \o <<"/", "m", "?", "url", "%3D", "https", "%253A", "%252F", "%252F", "upload", ".",
                    "wikimedia", ".", "org", "%252F", "foo", ".", "jpg">>, depth |-> 1],
      [url |-> <<"http", ":", "/", "/">> \o ServerHost \o <<"/", "m">>, depth |-> 0],
      [url |-> <<"http", ":", "/", "/">> \o ServerHost \o <<"/", "x", "?", "url", "=">> \o UploadUrl,
       depth |-> 0] }

\* url arguments of another scheme or another authority that look like proxy URLs
ForeignInputs ==
    { Wrapper(<<"evil", ".", "example", ".", "com">>, "m", "url") \o CatUrl,
      <<"ftp", ":", "/", "/">> \o ServerHost \o <<"/", "m", "?", "url", "=">> \o CatUrl,
      Wrapper(<<"localhost", ":", "8080">>, "m", "url") \o CatUrl,
      Wrapper(<<"localhost">>, "i", "url") \o UploadUrl,
      Wrapper(<<"example", ".", "com", ":", "5000">>, "m", "path") \o <<"/", "wiki", "/", "Cat">>,
      Wrapper(<<"upload", ".", "wikimedia", ".", "org">>, "i", "url") \o UploadUrl,
      <<"/", "m", "?", "url", "=">> \o CatUrl,
      <<"data", ":", "image/png">> }

UrlInputs == { in.url : in \in SelfInputs } \cup ForeignInputs

InitUrls ==
    /\ wikiBase = DefaultWikiBase
    /\ supabase \in BOOLEAN
    /\ store = <<>>
    /\ ticks = 0
    /\ version = 0
    /\ started = 0
    /\ req = [w \in Workers |-> IdleReq]

NextUrls ==
    \/ \E w \in Workers : \E raw_url \in UrlInputs : SeqTurn(w) /\ IStart(w, raw_url)
    \/ \E w \in Workers : PFetch(w)
    \/ \E w \in Workers : Finish(w)
    \/ Edit

\* /i requests one after another, for url arguments that wrap and that do not.
SpecUrls == InitUrls /\ [][NextUrls]_vars

\* url arguments for the loop of unwrap_proxy_url: those of SpecUrls and a chain of
\* 2 * MAX_HOPS wrappers.
LoopInputs == UrlInputs \cup { Nest(2 * MAX_HOPS, UploadUrl) }

\* Line 493: unwrap_proxy_url is entered with the url argument of a /i request.
UStart(w, raw_url) ==
    /\ CanStart(w)
    /\ started' = started + 1
    /\ req' = [req EXCEPT ![w] =
          [IdleReq EXCEPT !.endpoint = "i", !.pc = "unwrap", !.raw_url = raw_url,
                          !.target = raw_url, !.hops = 0]]
    /\ UNCHANGED <<wikiBase, supabase, store, ticks, version>>

\* The loop of unwrap_proxy_url without the limit of MAX_HOPS iterations.
UIterUnbounded(w) ==
    /\ req[w].pc = "unwrap"
    /\ LET Stepped(r) ==
               IF r[1] THEN [req[w] EXCEPT !.target = r[2], !.hops = @ + 1]
               ELSE [req[w] EXCEPT !.pc = "unwrapped"]
       IN  req' = [req EXCEPT ![w] = Stepped(UnwrapStep(req[w].target, ServerHost, wikiBase))]
    /\ UNCHANGED <<wikiBase, supabase, store, ticks, version, started>>

\* Lines 494-577: one pass of `for _ in range(MAX_HOPS)`, target being `current` and
\* hops the number of passes completed: a pass that reaches `continue` replaces
\* current, a pass that reaches `break` and the end of the range leave the loop.
UIter(w) ==
    /\ req[w].pc = "unwrap"
    /\ LET Stepped(r) ==
               IF r[1] THEN [req[w] EXCEPT !.target = r[2], !.hops = @ + 1]
               ELSE [req[w] EXCEPT !.pc = "unwrapped"]
       IN  req' = [req EXCEPT ![w] =
             IF req[w].hops >= MAX_HOPS THEN [req[w] EXCEPT !.pc = "unwrapped"]
             ELSE Stepped(UnwrapStep(req[w].target, ServerHost, wikiBase))]
    /\ UNCHANGED <<wikiBase, supabase, store, ticks, version, started>>

\* Line 577: unwrap_proxy_url has returned `current`.
UReturn(w) ==
    /\ req[w].pc = "unwrapped"
    /\ req' = [req EXCEPT ![w] = IdleReq]
    /\ UNCHANGED <<wikiBase, supabase, store, ticks, version, started>>

NextLoop ==
    \/ \E w \in Workers : \E raw_url \in LoopInputs : SeqTurn(w) /\ UStart(w, raw_url)
    \/ \E w \in Workers : UIter(w)
    \/ \E w \in Workers : UReturn(w)

\* Weak fairness of the passes of worker w, WF_vars(UIter(w)), written out: a pass
\* changes req whenever the worker is in the loop, so ENABLED <<UIter(w)>>_vars is
\* req[w].pc = "unwrap".
FairLoop(w) == []<>(req[w].pc # "unwrap") \/ []<><<UIter(w)>>_vars

\* The loop of unwrap_proxy_url pass by pass.  The handler's thread runs the loop
\* without waiting for anything, so a pass that can be taken is taken.
SpecLoop == InitUrls /\ [][NextLoop]_vars /\ \A w \in Workers : FairLoop(w)

\* "https://<host>/x.png"
OnHost(host) == <<"https", ":", "/", "/">> \o host \o <<"/", "x", ".", "png">>

\* Authorities put to the allowlist: every apex alone and under a label, the two exact
\* hosts, look-alikes, upper case, ports, blanks, and none.
HostInputs ==
    WIKIMEDIA_APEX
    \cup { <<"www", ".">> \o apex : apex \in WIKIMEDIA_APEX }
    \cup { <<"en", ".", "m", ".", "wikipedia", ".", "org">>,
           <<"commons", ".", "wikimedia", ".", "org">>,
           <<"upload", ".", "wikimedia", ".", "org">>,
           <<"commons", ".", "wikimedia", ".", "org", ":", "8080">>,
           <<"EN", ".", "Wikipedia", ".", "ORG", ":", "443">>,
           <<".", "wikipedia", ".", "org">>,
           <<"evil", "wikipedia", ".", "org">>,
           <<"wikipedia", ".", "org", ".", "attacker", ".", "com">>,
           <<"upload", ".", "wikimedia", ".", "org", ".", "evil", ".", "com">>,
           <<"wikipedia", ".", "org", ".">>,
           <<"en", ".", "wikipedia", ".", "com">>,
           <<"wikipedia">>,
           <<"org">>,
           <<":", "443">>,
           <<>>,
           <<"en", ".", "m", ".", "wikipedia", ".", "org", " ">>,
           <<" ", "upload", ".", "wikimedia", ".", "org">>,
           <<"evil", ".", "example", ".", "com", " ">> }

NextHosts ==
    \/ \E w \in Workers : \E host \in HostInputs : SeqTurn(w) /\ IStart(w, OnHost(host))
    \/ \E w \in Workers : PFetch(w)
    \/ \E w \in Workers : Finish(w)
    \/ Edit

\* /i requests one after another, for images on hosts inside and outside the allowlist.
SpecHosts == InitUrls /\ [][NextHosts]_vars

\* The host the HTTP client connects to for a URL with authority netloc, as
\* requests.get takes it: what follows the last "@", without the port.
ConnectedHost(netloc) ==
    LET Ats == { i \in 1..Len(netloc) : netloc[i] = "@" }
        HostPort(hp) == IF FirstIn(hp, {":"}) # 0 THEN SplitFirst(hp, ":") ELSE hp
    IN  HostPort(IF Ats = {} THEN netloc
                 ELSE From(netloc, (CHOOSE i \in Ats : \A j \in Ats : j <= i) + 1))

EvilHost == <<"evil", ".", "example", ".", "com">>

EnHost == <<"en", ".", "wikipedia", ".", "org">>

\* Authorities with and without userinfo and port, on Wikimedia hosts and on others.
AuthInputs ==
    { EnHost,
      EvilHost,
      EnHost \o <<":", "443">>,
      <<"user", "@">> \o EnHost,
      <<"user", ":", "pw", "@">> \o EnHost,
      <<"user", ":", "pw", "@">> \o EnHost \o <<":", "443">>,
      EvilHost \o <<":", "x", "@">> \o EnHost,
      <<"user", ":", "pw", "@">> \o EvilHost,
      EnHost \o <<"@">> \o EvilHost,
      EnHost \o <<":", "x", "@">> \o EvilHost,
      EnHost \o <<":", "443", "@">> \o EvilHost \o <<":", "8080">> }

\* "https://<authority>/wiki/Cat" as the url argument of /m
PageOn(host) ==
    [url |-> <<"https", ":", "/", "/">> \o host \o <<"/", "wiki", "/", "Cat">>,
     path |-> <<>>, al |-> <<>>]

NextAuth ==
    \/ \E w \in Workers : \E host \in AuthInputs : SeqTurn(w) /\ MStart(w, PageOn(host))
    \/ \E w \in Workers : MGet(w)
    \/ \E w \in Workers : MFetch(w)
    \/ \E w \in Workers : MUpsert(w)
    \/ \E w \in Workers : \E host \in AuthInputs : SeqTurn(w) /\ IStart(w, OnHost(host))
    \/ \E w \in Workers : PFetch(w)
    \/ \E w \in Workers : Finish(w)
    \/ Edit

\* /m and /i requests one after another, for URLs whose authority has userinfo.
SpecAuth == InitUrls /\ [][NextAuth]_vars

\* "http://en.wikipedia.org:x@localhost:5000/m?url=<page>": this server addressed
\* with userinfo that reads like a Wikimedia host
SelfWithUserinfo ==
    <<"http", ":", "/", "/">> \o EnHost \o <<":", "x", "@">> \o ServerHost
      \o <<"/", "m", "?", "url", "=">> \o CatUrl

\* url arguments that point back to this server, directly or through wrappers
BackInputs == UrlInputs \cup { SelfWithUserinfo }

NextBack ==
    \/ \E w \in Workers : \E u \in BackInputs :
          SeqTurn(w) /\ MStart(w, [url |-> u, path |-> <<>>, al |-> <<>>])
    \/ \E w \in Workers : MGet(w)
    \/ \E w \in Workers : MFetch(w)
    \/ \E w \in Workers : MUpsert(w)
    \/ \E w \in Workers : \E u \in BackInputs : SeqTurn(w) /\ IStart(w, u)
    \/ \E w \in Workers : PFetch(w)
    \/ \E w \in Workers : Finish(w)
    \/ Edit

\* /m and /i requests one after another, for url arguments that point back to this
\* server.
SpecBack == InitUrls /\ [][NextBack]_vars

RewriteInputs ==
    { [url |-> CatUrl, path |-> <<>>, al |-> <<>>],
      [url |-> DefaultWikiBase \o <<"/", "w", "/", "index", ".", "php", "?", "title", "=", "Cat">>,
       path |-> <<>>, al |-> <<>>] }

InitRewrite ==
    /\ wikiBase = DefaultWikiBase
    /\ supabase \in BOOLEAN
    /\ store = <<>>
    /\ ticks = 0
    /\ version \in DOMAIN PageElements
    /\ started = 0
    /\ req = [w \in Workers |-> IdleReq]

NextRewrite ==
    \/ \E w \in Workers : \E in \in RewriteInputs : SeqTurn(w) /\ MStart(w, in)
    \/ \E w \in Workers : MGet(w)
    \/ \E w \in Workers : MFetch(w)
    \/ \E w \in Workers : MUpsert(w)
    \/ \E w \in Workers : Finish(w)

\* /m requests one after another, for pages of anchors, media links, assets and forms.
SpecRewrite == InitRewrite /\ [][NextRewrite]_vars

\* Pages a and b, the page whose title is "a|https://en.m.wikipedia.org/wiki/b"
\* and an Accept-Language header that carries a "|".
PageA == DefaultWikiBase \o <<"/", "wiki", "/", "a">>

PageB == DefaultWikiBase \o <<"/", "wiki", "/", "b">>

KeyInputs ==
    { [url |-> PageB, path |-> <<>>, al |-> <<"en", "|">> \o PageA],
      [url |-> PageA \o <<"|">> \o PageB, path |-> <<>>, al |-> <<"en">>],
      [url |-> PageB, path |-> <<>>, al |-> <<"EN", ",", "fr">>],
      [url |-> PageB, path |-> <<>>, al |-> <<"fr">>],
      [url |-> PageA, path |-> <<>>, al |-> <<>>] }

InitKeys ==
    /\ wikiBase = DefaultWikiBase
    /\ supabase = TRUE
    /\ store = <<>>
    /\ ticks = 0
    /\ version = 0
    /\ started = 0
    /\ req = [w \in Workers |-> IdleReq]

NextKeys ==
    \/ \E w \in Workers : \E in \in KeyInputs : ConcTurn(w) /\ MStart(w, in)
    \/ \E w \in Workers : MGet(w)
    \/ \E w \in Workers : MFetch(w)
    \/ \E w \in Workers : MUpsert(w)
    \/ \E w \in Workers : Finish(w)

\* Parallel /m requests for several pages and languages.
SpecKeys == InitKeys /\ [][NextKeys]_vars

\* TTLs in [TTL_MIN, TTL_MAX] a stored row may start with.
TtlStarts == {<<600>>, <<1200>>, <<43200>>, <<50000>>, <<86400>>}

InitTtl ==
    /\ wikiBase = DefaultWikiBase
    /\ supabase = TRUE
    /\ store \in { (r.cache_key :> r) :
                     r \in { InitRow(st, TRUE, ttl, to_iso8601_z(0)) :
                               st \in Statuses, ttl \in TtlStarts } }
    /\ ticks = 0
    /\ version = 0
    /\ started = 0
    /\ req = [w \in Workers |-> IdleReq]

\* No request is in progress and time passes until a row of the table is stale.
Expire ==
    /\ \A w \in Workers : req[w].pc = "idle"
    /\ \E k \in DOMAIN store :
         /\ store[k].next_refresh_at[1] > utcnow
         /\ ticks' = (store[k].next_refresh_at[1] + CACHE_TTL_MIN_SECONDS - 1)
                        \div CACHE_TTL_MIN_SECONDS
    /\ UNCHANGED <<wikiBase, supabase, store, version, started, req>>

NextTtl ==
    \/ \E w \in Workers : \E in \in ConcInputs : SeqTurn(w) /\ MStart(w, in)
    \/ \E w \in Workers : MGet(w)
    \/ \E w \in Workers : MFetch(w)
    \/ \E w \in Workers : MUpsert(w)
    \/ \E w \in Workers : Finish(w)
    \/ Expire
    \/ Edit

\* Revalidations of one page, one after another, each once the row is stale again.
SpecTtl == InitTtl /\ [][NextTtl]_vars

\* Current TTLs a stored row may hold when it is read: missing, zero, negative,
\* below TTL_MIN, in range, and above TTL_MAX.
TtlCurrents ==
    {<<>>, <<0>>, <<-5>>, <<1>>, <<100>>, <<300>>, <<599>>, <<600>>, <<601>>,
     <<43200>>, <<50000>>, <<86400>>, <<100000>>}

InitTtlDef ==
    /\ wikiBase = DefaultWikiBase
    /\ supabase = TRUE
    /\ store \in { (r.cache_key :> r) :
                     r \in { InitRow(st, TRUE, ttl, to_iso8601_z(0)) :
                               st \in Statuses, ttl \in TtlCurrents } }
    /\ ticks = 0
    /\ version = 0
    /\ started = 0
    /\ req = [w \in Workers |-> IdleReq]

\* Revalidations of one page whose stored TTL is any of TtlCurrents.
SpecTtlDef == InitTtlDef /\ [][NextTtl]_vars

(***************************************************************************)
(* Properties.  A request's record keeps what it did: log is the order of  *)
(* its allowlist check, cache get, upstream fetch, cache upsert and        *)
(* response; allow, entry, fetched, resp, row, upserted and response hold  *)
(* their arguments and results; store0 is the table when it started.       *)
(***************************************************************************)

InLog(r, ev) == \E i \in 1..Len(r.log) : r.log[i] = ev

CountLog(r, ev) == Cardinality({i \in 1..Len(r.log) : r.log[i] = ev})

\* every ev2 of the log comes after some ev1
Before(r, ev1, ev2) ==
    \A j \in 1..Len(r.log) : r.log[j] = ev2 => \E i \in 1..(j - 1) : r.log[i] = ev1

\* The entry read has a body and the request's now lies before its next_refresh_at.
ReadFresh(r) ==
    /\ r.entry # <<>>
    /\ r.entry[1].body # <<>>
    /\ r.entry[1].next_refresh_at # <<>>
    /\ r.now < r.entry[1].next_refresh_at[1]

\* A /m request that read an entry with a body and got an answer from upstream.
Revalidated(r) ==
    /\ r.endpoint = "m"
    /\ r.entry # <<>>
    /\ r.entry[1].body # <<>>
    /\ r.resp # <<>>
    /\ r.resp[1].kind = "ok"

IsHtml(resp) == \E i \in 1..Len(resp.content_type) : resp.content_type[i] = "text/html"

\* C1: on every endpoint an upstream GET is issued only after the allowlist was
\* consulted on the host of the fetch target and accepted it; a denial answers 403
\* with no upstream GET, no cache get and no cache upsert.
C1_AllowlistBeforeEveryFetch ==
    \A w \in Workers :
      LET r == req[w]
      IN  /\ r.fetched # <<>> =>
                /\ r.allow # <<>>
                /\ r.allow[1].ok
                /\ r.allow[1].host = urlparse(r.fetched[1].url).netloc
                /\ Before(r, "allow", "fetch")
          /\ (r.allow # <<>> /\ ~r.allow[1].ok) =>
                /\ r.pc = "done"
                /\ r.response[1].status = 403
                /\ r.fetched = <<>>
                /\ ~InLog(r, "get")
                /\ ~InLog(r, "upsert")
                /\ store = r.store0

\* What holds of C1: the same statement for the endpoints /m and /i.
C1_MobileAndImageOnly ==
    \A w \in Workers :
      LET r == req[w]
      IN  /\ (r.endpoint \in {"m", "i"} /\ r.fetched # <<>>) =>
                /\ r.allow # <<>>
                /\ r.allow[1].ok
                /\ r.allow[1].host = urlparse(r.fetched[1].url).netloc
                /\ Before(r, "allow", "fetch")
          /\ (r.allow # <<>> /\ ~r.allow[1].ok) =>
                /\ r.pc = "done"
                /\ r.response[1].status = 403
                /\ r.fetched = <<>>
                /\ ~InLog(r, "get")
                /\ ~InLog(r, "upsert")
                /\ store = r.store0

\* C2: a /m request that reads an entry with a body whose next_refresh_at lies after
\* now answers with the stored body and status and X-WikiPro-Cache: HIT, issues no
\* upstream GET and no upsert, and leaves the row as it was.
C2_FreshHit ==
    \A w \in Workers :
      LET r == req[w]
      IN  (r.endpoint = "m" /\ InLog(r, "get") /\ ReadFresh(r)) =>
            /\ r.pc = "done"
            /\ r.response[1] = [status |-> r.entry[1].status[1], body |-> r.entry[1].body,
                                content_type |-> StoredHtmlType, cache_state |-> <<"HIT">>]
            /\ r.fetched = <<>>
            /\ r.upserted = <<>>
            /\ ~InLog(r, "fetch")
            /\ ~InLog(r, "upsert")
            /\ store = r.store0
            /\ store[r.cache_key] = r.entry[1]

C2_Witness ==
    \E w \in Workers :
      /\ req[w].endpoint = "m"
      /\ ReadFresh(req[w])
      /\ req[w].entry[1].next_refresh_at[2] = "Z"
      /\ req[w].entry[1].status = <<404>>
      /\ req[w].pc = "done"
      /\ req[w].response[1].cache_state = <<"HIT">>

\* C3: a /m request whose stale entry is answered 304 upserts one row with
\* ttl_seconds = next_ttl(entry.ttl_seconds, entry.status = 200) (600 becomes 1200 at
\* status 200), last_checked_at = now, and the body, body_sha256 and last_changed_at
\* of the entry read; it answers with the cached body and status, REVALIDATED.
C3_Revalidate304 ==
    \A w \in Workers :
      LET r == req[w]
          e == r.entry[1]
          row == r.row[1]
      IN  (Revalidated(r) /\ r.resp[1].status_code = 304) =>
            /\ r.pc \in {"upsert", "done"}
            /\ r.row # <<>>
            /\ row.ttl_seconds = <<next_ttl_seconds(e.ttl_seconds, e.status = <<200>>)>>
            /\ (e.ttl_seconds = <<600>> /\ e.status = <<200>>) => row.ttl_seconds = <<1200>>
            /\ e.status # <<200>> => row.ttl_seconds = <<CACHE_TTL_MIN_SECONDS>>
            /\ row.last_checked_at = <<r.now, "Z">>
            /\ row.body = e.body
            /\ row.body_sha256 = e.body_sha256
            /\ row.last_changed_at = e.last_changed_at
            /\ r.pc = "done" =>
                 /\ r.upserted = r.row
                 /\ CountLog(r, "upsert") = 1
                 /\ r.response[1] = [status |-> e.status[1], body |-> e.body,
                                     content_type |-> StoredHtmlType,
                                     cache_state |-> <<"REVALIDATED">>]

C3_Witness ==
    \E w \in Workers :
      /\ Revalidated(req[w])
      /\ req[w].resp[1].status_code = 304
      /\ req[w].entry[1].ttl_seconds = <<600>>
      /\ req[w].entry[1].status = <<200>>
      /\ req[w].pc = "done"
      /\ req[w].upserted # <<>>
      /\ req[w].upserted[1].ttl_seconds = <<1200>>
      /\ req[w].response[1].cache_state = <<"REVALIDATED">>

\* The rewritten body of the answer has the hash stored in the entry read.
SameHash(r) ==
    sha256_hex(rewrite_links(r.resp[1].text, r.target)) = r.entry[1].body_sha256

\* What C4 says the request does.
GrowsUnchanged(r) ==
    /\ r.pc \in {"upsert", "done"}
    /\ r.row # <<>>
    /\ r.row[1].ttl_seconds = <<next_ttl_seconds(r.entry[1].ttl_seconds, TRUE)>>
    /\ r.row[1].last_changed_at = r.entry[1].last_changed_at
    /\ r.pc = "done" =>
         /\ r.upserted = r.row
         /\ r.response[1].body = rewrite_links(r.resp[1].text, r.target)
         /\ r.response[1].cache_state = <<"UNCHANGED">>

\* C4 as claimed: for every stale entry, an upstream 200 text/html whose rewritten
\* body has the stored hash makes the request grow the TTL, keep last_changed_at and
\* answer UNCHANGED.
C4_UnchangedForEveryEntry ==
    \A w \in Workers :
      LET r == req[w]
      IN  (Revalidated(r) /\ r.resp[1].status_code = 200 /\ IsHtml(r.resp[1]) /\ SameHash(r))
            => GrowsUnchanged(r)

\* C4, amended: the same when the stored status of the entry is 200.
C4_UnchangedWhenStored200 ==
    \A w \in Workers :
      LET r == req[w]
      IN  (Revalidated(r) /\ r.resp[1].status_code = 200 /\ IsHtml(r.resp[1]) /\ SameHash(r)
           /\ r.entry[1].status = <<200>>)
            => GrowsUnchanged(r)

C4_Witness ==
    \E w \in Workers :
      /\ Revalidated(req[w])
      /\ req[w].resp[1].status_code = 200
      /\ IsHtml(req[w].resp[1])
      /\ SameHash(req[w])
      /\ req[w].entry[1].status = <<200>>
      /\ req[w].entry[1].ttl_seconds = <<600>>
      /\ req[w].pc = "done"
      /\ req[w].upserted[1].ttl_seconds = <<1200>>
      /\ req[w].response[1].cache_state = <<"UNCHANGED">>

\* C5: a /m request whose stale entry is answered with text/html whose rewritten body
\* has another hash than the stored one upserts a row with ttl_seconds = TTL_MIN, the
\* new body and hash, the new validators and last_changed_at = now, and answers with
\* the new body, REFRESH.
C5_RevalidateChanged ==
    \A w \in Workers :
      LET r == req[w]
          row == r.row[1]
          replaced == rewrite_links(r.resp[1].text, r.target)
      IN  (Revalidated(r) /\ r.resp[1].status_code # 304 /\ IsHtml(r.resp[1]) /\ ~SameHash(r)) =>
            /\ r.pc \in {"upsert", "done"}
            /\ r.row # <<>>
            /\ row.ttl_seconds = <<CACHE_TTL_MIN_SECONDS>>
            /\ row.body = replaced
            /\ row.body_sha256 = sha256_hex(replaced)
            /\ row.etag = r.resp[1].etag
            /\ row.last_modified = r.resp[1].last_modified
            /\ row.last_changed_at = <<r.now, "Z">>
            /\ r.pc = "done" =>
                 /\ r.upserted = r.row
                 /\ r.response[1] = [status |-> r.resp[1].status_code, body |-> replaced,
                                     content_type |-> StoredHtmlType,
                                     cache_state |-> <<"REFRESH">>]

C5_Witness ==
    \E w \in Workers :
      /\ Revalidated(req[w])
      /\ req[w].resp[1].status_code = 200
      /\ IsHtml(req[w].resp[1])
      /\ ~SameHash(req[w])
      /\ req[w].entry[1].status = <<200>>
      /\ req[w].entry[1].ttl_seconds = <<86400>>
      /\ req[w].pc = "done"
      /\ req[w].upserted[1].ttl_seconds = <<CACHE_TTL_MIN_SECONDS>>
      /\ req[w].response[1].cache_state = <<"REFRESH">>

\* C6: when the upstream GET of a /m request raises a network error, the request
\* makes no upsert and the table stays as it was; with a stale entry it answers with
\* the cached body and status, STALE; without a usable entry it answers 502.
C6_TransportFailure ==
    \A w \in Workers :
      LET r == req[w]
      IN  (r.endpoint = "m" /\ r.resp # <<>> /\ r.resp[1].kind = "error") =>
            /\ r.pc = "done"
            /\ r.row = <<>>
            /\ r.upserted = <<>>
            /\ ~InLog(r, "upsert")
            /\ store = r.store0
            /\ IF r.entry # <<>> /\ r.entry[1].body # <<>>
               THEN /\ r.response[1] = [status |-> r.entry[1].status[1],
                                        body |-> r.entry[1].body,
                                        content_type |-> StoredHtmlType,
                                        cache_state |-> <<"STALE">>]
                    /\ store[r.cache_key] = r.entry[1]
               ELSE /\ r.response[1].status = 502
                    /\ r.response[1].cache_state = <<>>

C6_Witness ==
    \E w \in Workers :
      /\ req[w].endpoint = "m"
      /\ req[w].resp # <<>>
      /\ req[w].resp[1].kind = "error"
      /\ req[w].entry # <<>>
      /\ req[w].pc = "done"
      /\ req[w].response[1].cache_state = <<"STALE">>
      /\ req[w].response[1].status = 404

\* A /m request that had no usable entry and got text/html from upstream.
MissHtml(r) ==
    /\ r.endpoint = "m"
    /\ ~(r.entry # <<>> /\ r.entry[1].body # <<>>)
    /\ r.resp # <<>>
    /\ r.resp[1].kind = "ok"
    /\ IsHtml(r.resp[1])

\* C7: a /m request without a usable entry that gets text/html returns the rewritten
\* body with the upstream status; it upserts a row (ttl_seconds = TTL_MIN, fetched_at
\* = last_checked_at = last_changed_at = now) exactly when the store is configured
\* and the target path is cacheable, and carries X-WikiPro-Cache: MISS exactly then;
\* without a store no /m response carries X-WikiPro-Cache and no store operation
\* occurs.
C7_Miss ==
    \A w \in Workers :
      LET r == req[w]
          row == r.row[1]
          replaced == rewrite_links(r.resp[1].text, r.target)
          cached == supabase /\ is_cacheable_html_target(urlparse(r.target))
      IN  /\ MissHtml(r) =>
                /\ r.pc \in {"upsert", "done"}
                /\ r.row # <<>> <=> cached
                /\ cached =>
                     /\ row.ttl_seconds = <<CACHE_TTL_MIN_SECONDS>>
                     /\ row.fetched_at = <<r.now, "Z">>
                     /\ row.last_checked_at = <<r.now, "Z">>
                     /\ row.last_changed_at = <<r.now, "Z">>
                     /\ row.body = replaced
                     /\ row.status = <<r.resp[1].status_code>>
                /\ r.pc = "done" =>
                     /\ r.upserted = r.row
                     /\ InLog(r, "upsert") <=> cached
                     /\ r.response[1] = [status |-> r.resp[1].status_code, body |-> replaced,
                                         content_type |-> StoredHtmlType,
                                         cache_state |-> IF cached THEN <<"MISS">> ELSE <<>>]
          /\ (r.endpoint = "m" /\ ~supabase) =>
                /\ r.response # <<>> => r.response[1].cache_state = <<>>
                /\ ~InLog(r, "get")
                /\ ~InLog(r, "upsert")
                /\ store = r.store0

C7_Witness ==
    \E w \in Workers :
      /\ MissHtml(req[w])
      /\ req[w].pc = "done"
      /\ req[w].upserted # <<>>
      /\ req[w].response[1].cache_state = <<"MISS">>
      /\ req[w].response[1].status = 404
      /\ req[w].cache_key \in DOMAIN store
      /\ store[req[w].cache_key] = req[w].upserted[1]

\* C8: when the upstream answer of a /m request is not a 304 and its Content-Type has
\* no text/html, on a revalidation as on a miss, the raw bytes are returned with the
\* upstream status and without X-WikiPro-Cache, and no upsert is made: the table
\* stays as it was.
C8_NonHtmlBypass ==
    \A w \in Workers :
      LET r == req[w]
      IN  (r.endpoint = "m" /\ r.resp # <<>> /\ r.resp[1].kind = "ok"
           /\ r.resp[1].status_code # 304 /\ ~IsHtml(r.resp[1])) =>
            /\ r.pc = "done"
            /\ r.response[1].status = r.resp[1].status_code
            /\ r.response[1].body = r.resp[1].text
            /\ r.response[1].cache_state = <<>>
            /\ r.response[1].content_type \in {r.resp[1].content_type,
                                               <<"application/octet-stream">>}
            /\ r.row = <<>>
            /\ r.upserted = <<>>
            /\ ~InLog(r, "upsert")
            /\ store = r.store0

C8_Witness ==
    \E w \in Workers :
      /\ Revalidated(req[w])
      /\ req[w].resp[1].status_code = 200
      /\ ~IsHtml(req[w].resp[1])
      /\ req[w].pc = "done"
      /\ req[w].response[1].body = <<Text("bytes")>>
      /\ store[req[w].cache_key] = req[w].entry[1]

\* C9: in a /m request a failing cache get is handled as a miss (no entry, an
\* unconditional upstream GET, the outcome of a miss), a failing upsert leaves the
\* response the one computed before it, and a request whose store call failed answers
\* 502 only when upstream could not be reached, else with the upstream status.
C9_StoreFailuresSwallowed ==
    \A w \in Workers :
      LET r == req[w]
      IN  r.endpoint = "m" =>
            /\ r.get_failed =>
                 /\ r.entry = <<>>
                 /\ r.pc \in {"fetch", "upsert", "done"}
                 /\ r.pc \in {"upsert", "done"} =>
                      /\ r.fetched # <<>>
                      /\ r.fetched[1].if_none_match = <<>>
                      /\ r.fetched[1].if_modified_since = <<>>
                 /\ (r.pc = "done" /\ r.resp[1].kind = "ok" /\ IsHtml(r.resp[1])) =>
                      /\ r.upserted # <<>>
                      /\ r.upserted[1].ttl_seconds = <<CACHE_TTL_MIN_SECONDS>>
                      /\ r.response[1].cache_state = <<"MISS">>
            /\ r.upsert_failed =>
                 /\ r.pc = "done"
                 /\ r.response = r.pending
                 /\ store = r.store0
            /\ (r.pc = "done" /\ (r.get_failed \/ r.upsert_failed)) =>
                 /\ r.resp # <<>>
                 /\ r.response[1].status = 502 <=> r.resp[1].kind = "error"
                 /\ (r.resp[1].kind = "ok" /\ r.resp[1].status_code # 304) =>
                      r.response[1].status = r.resp[1].status_code
                 /\ (r.resp[1].kind = "ok" /\ r.resp[1].status_code = 304) =>
                      r.response[1].status = r.entry[1].status[1]

C9_Witness ==
    \E w \in Workers :
      /\ req[w].endpoint = "m"
      /\ req[w].get_failed
      /\ req[w].upsert_failed
      /\ req[w].cache_key \in DOMAIN req[w].store0
      /\ req[w].pc = "done"
      /\ req[w].response[1].cache_state = <<"MISS">>
      /\ req[w].response[1].status = 200

InTtlRange(row) ==
    /\ row.ttl_seconds # <<>>
    /\ CACHE_TTL_MIN_SECONDS <= row.ttl_seconds[1]
    /\ row.ttl_seconds[1] <= CACHE_TTL_MAX_SECONDS

\* C10: every row a /m request upserts, on a miss, a 304, an unchanged or a changed
\* revalidation, in any order and interleaving, has TTL_MIN <= ttl_seconds <= TTL_MAX,
\* also when the entry read had ttl_seconds missing, zero, negative or below TTL_MIN.
C10_TtlBounds ==
    /\ \A w \in Workers :
         /\ req[w].row # <<>> => InTtlRange(req[w].row[1])
         /\ req[w].upserted # <<>> => InTtlRange(req[w].upserted[1])
    /\ \A k \in DOMAIN store :
         store[k].last_checked_at[1] >= 0 => InTtlRange(store[k])

C10_Witness ==
    \E w \in Workers : \E v \in Workers :
      /\ w # v
      /\ req[w].pc = "done"
      /\ req[w].entry # <<>>
      /\ req[w].entry[1].ttl_seconds = <<>>
      /\ req[w].upserted # <<>>
      /\ req[w].upserted[1].ttl_seconds = <<2 * CACHE_TTL_MIN_SECONDS>>
      /\ req[v].pc = "done"
      /\ req[v].entry = req[w].entry
      /\ req[v].upserted # <<>>
      /\ req[v].upserted[1].ttl_seconds = <<CACHE_TTL_MIN_SECONDS>>
      /\ store[req[v].cache_key] = req[v].upserted[1]


(***************************************************************************)
(* Store invariants.                                                       *)
(***************************************************************************)

\* Rows of the table this run of the proxy wrote (the rows of Init were checked
\* before the run started).
WrittenRows ==
    { store[k] : k \in { j \in DOMAIN store : store[j].last_checked_at[1] >= 0 } }
    \cup { req[w].row[1] : w \in { v \in Workers : req[v].row # <<>> } }
    \cup { req[w].upserted[1] : w \in { v \in Workers : req[v].upserted # <<>> } }

\* C11: every row the proxy writes (miss, 304, unchanged or changed revalidation)
\* whose status is not 200 has ttl_seconds = TTL_MIN; a row with a larger TTL has
\* status 200.
C11_Only200Grow ==
    \A row \in WrittenRows :
        /\ row.status # <<200>> => row.ttl_seconds = <<CACHE_TTL_MIN_SECONDS>>
        /\ (row.ttl_seconds # <<>> /\ row.ttl_seconds[1] > CACHE_TTL_MIN_SECONDS)
              => row.status = <<200>>

C11_Witness ==
    \E w \in Workers :
      /\ req[w].pc = "done"
      /\ req[w].entry # <<>>
      /\ req[w].entry[1].status = <<404>>
      /\ req[w].entry[1].ttl_seconds = <<CACHE_TTL_MAX_SECONDS>>
      /\ req[w].resp[1].status_code = 304
      /\ req[w].upserted # <<>>
      /\ req[w].upserted[1].status = <<404>>
      /\ req[w].upserted[1].ttl_seconds = <<CACHE_TTL_MIN_SECONDS>>
      /\ store[req[w].cache_key] = req[w].upserted[1]

HashOk(row) == row.body_sha256 = sha256_hex(row.body)

\* C12: the rows of the table at start-up satisfy body_sha256 = SHA-256(body), and
\* after every upsert of a /m request, in any interleaving of parallel requests,
\* every row of the table and every row upserted satisfies it.
C12_BodyHash ==
    /\ \A k \in DOMAIN store : HashOk(store[k])
    /\ \A w \in Workers : req[w].upserted # <<>> => HashOk(req[w].upserted[1])

C12_Witness ==
    \E w \in Workers : \E v \in Workers :
      /\ w # v
      /\ req[w].pc = "done"
      /\ req[v].pc = "done"
      /\ req[w].upserted # <<>>
      /\ req[v].upserted # <<>>
      /\ ~req[w].upsert_failed
      /\ ~req[v].upsert_failed
      /\ req[w].resp[1].status_code = 304
      /\ req[v].resp[1].status_code = 200
      /\ req[w].upserted[1].body # req[v].upserted[1].body
      /\ req[w].cache_key = req[v].cache_key
      /\ store[req[v].cache_key] = req[w].upserted[1]

\* The cacheable paths as the words of the specification list them.
CacheablePathAsListed(path) ==
    \/ path = <<>>
    \/ path = <<"/">>
    \/ StartsWith(path, <<"/", "wiki", "/">>)
    \/ path = <<"/", "w", "/", "index", ".", "php">>

\* The path tested: as it stands in the url, or with surrounding blanks stripped.
TestedPath(url, stripped) ==
    IF stripped THEN Strip(urlparse(url).path) ELSE urlparse(url).path

\* No request whose target failed the allowlist or the path test upserts.
NoUpsertWhenRefused(stripped) ==
    \A w \in Workers :
        (\/ req[w].endpoint # "m"
         \/ req[w].allow = <<>>
         \/ ~req[w].allow[1].ok
         \/ ~CacheablePathAsListed(TestedPath(req[w].target, stripped)))
        => (req[w].row = <<>> /\ req[w].upserted = <<>> /\ ~InLog(req[w], "upsert"))

RowsPopulated(stripped) ==
    \A row \in WrittenRows :
        /\ is_allowed_wikimedia_host(urlparse(row.url).netloc)
        /\ CacheablePathAsListed(TestedPath(row.url, stripped))

\* C13 as stated: every row the proxy has written has a url whose host passes the
\* allowlist and whose path is "", "/", starts with "/wiki/" or is "/w/index.php",
\* and no request whose target fails either test upserts.
C13_PopulationAsListed ==
    /\ RowsPopulated(FALSE)
    /\ NoUpsertWhenRefused(FALSE)

\* C13: every row the proxy has written has a url whose host passes the allowlist
\* and whose path, with surrounding blanks stripped, is "", "/", starts with
\* "/wiki/" or is "/w/index.php"; no request whose target fails either test upserts.
C13_Population ==
    /\ RowsPopulated(TRUE)
    /\ NoUpsertWhenRefused(TRUE)

C13_Witness ==
    /\ \E row \in WrittenRows :
         urlparse(row.url).path = <<"/", "w", "/", "index", ".", "php", " ">>
    /\ \E w \in Workers :
         /\ req[w].pc = "done"
         /\ req[w].endpoint = "m"
         /\ urlparse(req[w].target).path = <<"/", "w", "/", "load", ".", "php">>
         /\ req[w].response[1].status = 200
         /\ req[w].upserted = <<>>


(***************************************************************************)
(* Cache key.                                                              *)
(***************************************************************************)

\* The requests that computed a cache key.
Keyed == { w \in Workers : req[w].endpoint = "m" /\ req[w].cache_key # <<>> }

\* C14: requests with equal (rewrite_version, lang_key, canonical_url) have equal
\* cache keys, and requests that differ in lang_key or canonical_url have different
\* key material, for language keys taken from Accept-Language and allowlisted urls,
\* also when they contain "|".
C14_KeySeparation ==
    \A w \in Keyed : \A v \in Keyed :
        (req[w].lang_key = req[v].lang_key
            /\ req[w].canonical_target = req[v].canonical_target)
        <=> req[w].cache_key = req[v].cache_key


(***************************************************************************)
(* TTL sequence.                                                           *)
(***************************************************************************)

\* The request r revalidated an entry and observed it unchanged at status 200
\* (a 304, or a 200 page with the stored hash), i.e. can_grow = true.
ObservedUnchanged(r) ==
    /\ r.entry[1].status = <<200>>
    /\ \/ r.resp[1].status_code = 304
       \/ /\ r.resp[1].status_code = 200
          /\ IsHtml(r.resp[1])
          /\ SameHash(r)

\* C15: a revalidation that reads a row with ttl_seconds in [TTL_MIN, TTL_MAX] and
\* upserts writes, with can_grow = true, a ttl_seconds that is not below the one
\* read and not above TTL_MAX, and with can_grow = false exactly TTL_MIN; so the
\* TTLs of consecutive can_grow = true revalidations never decrease.
C15_TtlMonotone ==
    \A w \in Workers :
        (/\ Revalidated(req[w])
         /\ req[w].upserted # <<>>
         /\ InTtlRange(req[w].entry[1]))
        => IF ObservedUnchanged(req[w])
           THEN /\ req[w].upserted[1].ttl_seconds[1] >= req[w].entry[1].ttl_seconds[1]
                /\ req[w].upserted[1].ttl_seconds[1] <= CACHE_TTL_MAX_SECONDS
           ELSE req[w].upserted[1].ttl_seconds = <<CACHE_TTL_MIN_SECONDS>>

\* The second of two consecutive growing revalidations: the row read was written
\* by the first (43200 -> 86400) and the TTL stays at TTL_MAX.
C15_Witness ==
    \E w \in Workers :
      /\ req[w].pc = "done"
      /\ Revalidated(req[w])
      /\ req[w].entry[1].last_checked_at[1] >= 0
      /\ req[w].entry[1].ttl_seconds = <<CACHE_TTL_MAX_SECONDS>>
      /\ req[w].now >= CACHE_TTL_MAX_SECONDS
      /\ ObservedUnchanged(req[w])
      /\ req[w].upserted # <<>>
      /\ req[w].upserted[1].ttl_seconds = <<CACHE_TTL_MAX_SECONDS>>
      /\ store[req[w].cache_key] = req[w].upserted[1]

\* Requests to /i whose url argument went through unwrap_proxy_url.
Unwrapped == { w \in Workers : req[w].endpoint = "i" /\ req[w].raw_url # <<>> }

\* The number of wrappers of this server that the url argument was built with.
InputDepth(u) ==
    IF \E in \in SelfInputs : in.url = u
    THEN (CHOOSE in \in SelfInputs : in.url = u).depth
    ELSE 0

\* C16 as stated: unwrapping the result of unwrap_proxy_url gives that result again,
\* for every url argument, whatever number of wrappers it nests.
C16_UnwrapIdempotent ==
    \A w \in Unwrapped :
        unwrap_proxy_url(req[w].target, ServerHost, wikiBase) = req[w].target

\* C16: unwrapping the result of unwrap_proxy_url gives that result again, for every
\* url argument that nests at most MAX_HOPS wrappers of this server.
C16_UnwrapIdempotentWithinHops ==
    \A w \in Unwrapped :
        InputDepth(req[w].raw_url) <= MAX_HOPS
            => unwrap_proxy_url(req[w].target, ServerHost, wikiBase) = req[w].target

\* A url argument of exactly MAX_HOPS wrappers was peeled down to the upstream image,
\* which was fetched.
C16_Witness ==
    \E w \in Unwrapped :
        /\ InputDepth(req[w].raw_url) = MAX_HOPS
        /\ req[w].target = UploadUrl
        /\ req[w].pc = "done"
        /\ InLog(req[w], "fetch")

\* The authorities under which this server answers: its Host and the loopback names
\* on the same port.
OwnAuthorities ==
    { <<"localhost", ":", "5000">>, <<"127", ".", "0", ".", "0", ".", "1", ":", "5000">>,
      <<"0", ".", "0", ".", "0", ".", "0", ":", "5000">>, <<"[", ":", ":", "1", "]", ":", "5000">> }

\* The URL is not http(s), or its authority is not one of this server's.
Foreign(u) ==
    \/ urlparse(u).scheme \notin {<<"http">>, <<"https">>}
    \/ Lower(urlparse(u).netloc) \notin OwnAuthorities

\* C17: a url argument whose scheme is not http(s), or whose authority is neither this
\* server's host nor a loopback alias of it on the same port, is returned by
\* unwrap_proxy_url as it is, whatever its path and query.
C17_UnwrapSafety ==
    \A w \in Unwrapped : Foreign(req[w].raw_url) => req[w].target = req[w].raw_url

\* A URL on another host that looks like /m?url=<page> was taken as the target itself
\* and refused by the allowlist.
C17_Witness ==
    \E w \in Unwrapped :
        /\ req[w].raw_url = Wrapper(<<"evil", ".", "example", ".", "com">>, "m", "url") \o CatUrl
        /\ Foreign(req[w].raw_url)
        /\ req[w].target = req[w].raw_url
        /\ req[w].pc = "done"
        /\ req[w].response[1].status = 403

\* Requests whose target was put to the allowlist.
Asked == { w \in Workers : req[w].allow # <<>> }

\* h[:h.find(":")], the host without its port
WithoutPort(h) == IF \E i \in 1..Len(h) : h[i] = ":" THEN SplitFirst(h, ":") ELSE h

\* h is one of the two exact hosts, an apex, or a name that ends with "." + apex.
InClosure(h) ==
    \/ h = <<"commons", ".", "wikimedia", ".", "org">>
    \/ h = <<"upload", ".", "wikimedia", ".", "org">>
    \/ \E apex \in WIKIMEDIA_APEX :
         \/ h = apex
         \/ \E k \in 0..Len(h) : SubSeq(h, k + 1, Len(h)) = <<".">> \o apex

\* C18 as stated: the allowlist accepts a host exactly when the host is non-empty and,
\* lowercased and without its port, is in the closure of the apexes and the two exact hosts.
C18_AllowlistClosureAsStated ==
    \A w \in Asked :
        req[w].allow[1].ok <=>
            /\ req[w].allow[1].host # <<>>
            /\ InClosure(WithoutPort(Lower(req[w].allow[1].host)))

\* C18: the allowlist accepts a host exactly when the host is non-empty and, lowercased,
\* with surrounding blanks removed and without its port, is in the closure of the apexes
\* and the two exact hosts.
C18_AllowlistClosure ==
    \A w \in Asked :
        req[w].allow[1].ok <=>
            /\ req[w].allow[1].host # <<>>
            /\ InClosure(WithoutPort(Strip(Lower(req[w].allow[1].host))))

\* evilwikipedia.org was refused with 403 and nothing was fetched.
C18_Witness ==
    \E w \in Asked :
        /\ req[w].allow[1].host = <<"evil", "wikipedia", ".", "org">>
        /\ ~req[w].allow[1].ok
        /\ req[w].pc = "done"
        /\ req[w].response[1].status = 403
        /\ req[w].fetched = <<>>

\* /m requests answered with the page upstream sent, rewritten.
Served ==
    { w \in Workers : /\ req[w].endpoint = "m"
                      /\ req[w].pc = "done"
                      /\ req[w].resp # <<>>
                      /\ req[w].resp[1].kind = "ok"
                      /\ req[w].resp[1].status_code # 304
                      /\ IsHtml(req[w].resp[1]) }

\* The elements of the page upstream sent to w, and of the page w answered with.
Sent(w) == { req[w].resp[1].text[i] : i \in 1..Len(req[w].resp[1].text) }

Answered(w) == { req[w].response[1].body[i] : i \in 1..Len(req[w].response[1].body) }

\* The answered page has element e with attribute attr set to val and nothing else changed.
AnsweredWith(w, e, attr, val) == [e EXCEPT !.attrs[attr] = val] \in Answered(w)

\* The URL attributes the rewriter processes on an element of this name.
Processed(name) ==
    CASE name \in {"a", "link"} -> {"href"}
      [] name = "script" -> {"src"}
      [] name \in {"img", "source", "video", "audio"} -> {"src", "srcset"}
      [] name = "form" -> {"action"}
      [] OTHER -> {}

\* val is a data: or a javascript: URL
Inert(val) == Len(val) >= 2 /\ val[1] \in {"data", "javascript"} /\ val[2] = ":"

\* Every data: and javascript: value of a processed attribute of an element named in
\* names is in the answered page as it was sent.
InertKept(names) ==
    \A w \in Served : \A e \in Sent(w) :
        e.name \in names =>
            \A attr \in Processed(e.name) \cap DOMAIN e.attrs :
                Inert(e.attrs[attr]) => AnsweredWith(w, e, attr, e.attrs[attr])

\* Every anchor whose href is a fragment is in the answered page as it was sent.
FragmentsKept ==
    \A w \in Served : \A e \in Sent(w) :
        (e.name = "a" /\ "href" \in DOMAIN e.attrs /\ e.attrs.href # <<>>
           /\ e.attrs.href[1] = "#") => e \in Answered(w)

\* The answered page has no <base> and no <meta http-equiv> that is
\* content-security-policy, x-frame-options or refresh in any case.
NeutralizedAbsent ==
    \A w \in Served : \A e \in Answered(w) :
        /\ e.name # "base"
        /\ (e.name = "meta" /\ "http-equiv" \in DOMAIN e.attrs) =>
              e.attrs["http-equiv"] \notin
                  { <<"content-security-policy">>, <<"Content-Security-Policy">>,
                    <<"x-frame-options">>, <<"X-Frame-Options">>,
                    <<"refresh">>, <<"Refresh">> }

\* C19: on every element the rewriter processes (a href, link href, script src,
\* img/source/video/audio src and srcset, form action) a data: or javascript: value is
\* left unchanged; an anchor whose href is a fragment is left unchanged; no <base> and
\* no <meta http-equiv> of content-security-policy, x-frame-options or refresh is in
\* the output.
C19_RewriterFixedPoints ==
    /\ InertKept({"a", "link", "script", "img", "source", "video", "audio", "form"})
    /\ FragmentsKept
    /\ NeutralizedAbsent

\* The fixed points on link, script and media elements, fragments and removals.
AssetsAndMediaFixed ==
    /\ InertKept({"link", "script", "img", "source", "video", "audio"})
    /\ FragmentsKept
    /\ NeutralizedAbsent

\* href with the blanks around it removed
Trimmed(a) == Strip(a.attrs.href)

\* The anchor sent as a, on the page at base_url, is a media link.
MediaLink(a, base_url) ==
    \/ "<img>" \in { a.contents[i] : i \in 1..Len(a.contents) }
    \/ \E rest \in {<<"File", ":">>, <<"Media", ":">>} :
         StartsWith(urlparse(urljoin(base_url, Trimmed(a))).path, <<"/", "wiki", "/">> \o rest)
    \/ Contains(urlparse(urljoin(base_url, Trimmed(a))).path,
                <<"/", "wiki", "/", "Special", ":", "FilePath", "/">>)
    \/ /\ "class" \in DOMAIN a.attrs
       /\ { a.attrs.class[i] : i \in 1..Len(a.attrs.class) }
            \cap {"image", "thumb", "thumbimage", "mwe-image", "mw-file-description"} # {}
    \/ "data-file" \in DOMAIN a.attrs

\* C20: every <a href> whose href (trimmed) is non-empty, not a fragment and not a
\* media link is answered with href "/m?url=" followed by the percent-encoding of the
\* href resolved against the page's URL; every media link keeps its href.
C20_AnchorRewrite ==
    \A w \in Served : \A a \in Sent(w) :
        (a.name = "a" /\ "href" \in DOMAIN a.attrs /\ Trimmed(a) # <<>>
           /\ Trimmed(a)[1] # "#") =>
            IF MediaLink(a, req[w].target)
            THEN a \in Answered(w)
            ELSE AnsweredWith(w, a, "href",
                     <<"/", "m", "?", "url", "=">>
                         \o quote(urljoin(req[w].target, Trimmed(a))))

\* The page at https://en.m.wikipedia.org/wiki/Cat was answered with href="/wiki/Dog"
\* turned into /m?url=https%3A%2F%2Fen.m.wikipedia.org%2Fwiki%2FDog.
C20_Witness ==
    \E w \in Served :
        /\ req[w].target = CatUrl
        /\ Anchor("a1", <<"/", "wiki", "/", "Dog">>) \in Sent(w)
        /\ Anchor("a1", <<"/", "m", "?", "url", "=", "https", "%3A", "%2F", "%2F", "en", ".",
                          "m", ".", "wikipedia", ".", "org", "%2F", "wiki", "%2F", "Dog">>)
             \in Answered(w)

(***************************************************************************)
(* Definition of the next TTL.                                             *)
(***************************************************************************)

\* One growth step from a positive TTL cur: floor(cur * GROWTH), replaced by
\* cur + TTL_MIN when it does not exceed cur, then clamped to [TTL_MIN, TTL_MAX].
ClampedStep(cur) ==
    LET Clamp(grown) ==
            IF grown < CACHE_TTL_MIN_SECONDS THEN CACHE_TTL_MIN_SECONDS
            ELSE IF grown > CACHE_TTL_MAX_SECONDS THEN CACHE_TTL_MAX_SECONDS
            ELSE grown
        Stepped(grown) == Clamp(IF grown <= cur THEN cur + CACHE_TTL_MIN_SECONDS ELSE grown)
    IN  Stepped((cur * GrowthNum) \div GrowthDen)

\* The current TTL of the entry a request read, 0 when it is missing.
CurrentTtl(r) == IF r.entry[1].ttl_seconds = <<>> THEN 0 ELSE r.entry[1].ttl_seconds[1]

\* The TTL of the row a revalidation writes is TTL_MIN when the entry was not
\* observed unchanged at status 200, and one growth step from cur otherwise.
WritesStepFrom(r, cur) ==
    r.row[1].ttl_seconds =
        <<IF ObservedUnchanged(r) THEN ClampedStep(cur) ELSE CACHE_TTL_MIN_SECONDS>>

\* C21: for every current TTL of the entry read (missing, zero, negative, in
\* 1..TTL_MIN-1, or in range) the TTL a revalidation writes is
\* clamp(grown, TTL_MIN, TTL_MAX) with cur = max(current, TTL_MIN), grown =
\* floor(cur * GROWTH) replaced by cur + TTL_MIN when grown <= cur, if the entry was
\* observed unchanged at status 200, and TTL_MIN otherwise.
C21_NextTtlDefinition ==
    \A w \in Workers :
        (Revalidated(req[w]) /\ req[w].row # <<>>)
        => WritesStepFrom(req[w], IF CurrentTtl(req[w]) > CACHE_TTL_MIN_SECONDS
                                  THEN CurrentTtl(req[w]) ELSE CACHE_TTL_MIN_SECONDS)

\* C21 with the base the code grows from: cur is the current TTL when it is
\* positive (also in 1..TTL_MIN-1, so 300 grows to 600 and 100 to the clamp
\* TTL_MIN) and TTL_MIN when it is missing, zero or negative; a current TTL above
\* TTL_MAX grows to TTL_MAX.
C21_NextTtlFromPositive ==
    \A w \in Workers :
        (Revalidated(req[w]) /\ req[w].row # <<>>)
        => WritesStepFrom(req[w], IF CurrentTtl(req[w]) > 0
                                  THEN CurrentTtl(req[w]) ELSE CACHE_TTL_MIN_SECONDS)

\* A revalidation that read an entry with TTL 300 = TTL_MIN / 2 at status 200,
\* observed it unchanged and upserted a row with TTL 600.
C21_Witness ==
    \E w \in Workers :
      /\ req[w].pc = "done"
      /\ Revalidated(req[w])
      /\ ObservedUnchanged(req[w])
      /\ req[w].entry[1].ttl_seconds = <<CACHE_TTL_MIN_SECONDS \div 2>>
      /\ req[w].upserted # <<>>
      /\ req[w].upserted[1].ttl_seconds = <<CACHE_TTL_MIN_SECONDS>>
      /\ store[req[w].cache_key] = req[w].upserted[1]

(***************************************************************************)
(* Termination of unwrap_proxy_url.                                        *)
(***************************************************************************)

\* A request whose url argument nests n wrappers of this server has, when the loop
\* is left, completed min(n, MAX_HOPS) passes and holds the URL under those
\* wrappers, which for n > MAX_HOPS is still a wrapper.
PeeledTo(r, n, inner) ==
    (r.pc = "unwrapped" /\ r.raw_url = Nest(n, inner))
    => IF n > MAX_HOPS
       THEN /\ r.hops = MAX_HOPS
            /\ r.target = Nest(n - MAX_HOPS, inner)
            /\ UnwrapStep(r.target, ServerHost, wikiBase)[1]
       ELSE /\ r.hops = n
            /\ r.target = inner

\* C22: for every url argument, also chains of more than MAX_HOPS wrappers of this
\* server, the loop of unwrap_proxy_url is left after at most MAX_HOPS = 8 passes
\* (every call returns), and when the range is exhausted the URL returned is the one
\* reached after the 8th pass, not peeled further.
C22_UnwrapTerminates ==
    /\ [](\A w \in Workers :
            /\ req[w].hops <= MAX_HOPS
            /\ req[w].pc = "unwrapped"
                 => req[w].target = unwrap_proxy_url(req[w].raw_url, ServerHost, wikiBase)
            /\ \A n \in 0..(2 * MAX_HOPS) : PeeledTo(req[w], n, UploadUrl))
    /\ \A w \in Workers : (req[w].pc = "unwrap") ~> (req[w].pc = "unwrapped")

\* The loop was left after MAX_HOPS passes over a chain of 2 * MAX_HOPS wrappers,
\* with MAX_HOPS wrappers left.
C22_Witness ==
    \E w \in Workers :
      /\ req[w].pc = "unwrapped"
      /\ req[w].raw_url = Nest(2 * MAX_HOPS, UploadUrl)
      /\ req[w].hops = MAX_HOPS
      /\ req[w].target = Nest(MAX_HOPS, UploadUrl)

(***************************************************************************)
(* Order of the steps of one request.                                      *)
(***************************************************************************)

\* every ev1 of the log comes before every ev2
Precedes(r, ev1, ev2) ==
    \A i \in 1..Len(r.log) : \A j \in 1..Len(r.log) :
        (r.log[i] = ev1 /\ r.log[j] = ev2) => i < j

\* C23: at every moment of every /m request, the request has made at most one cache
\* get, at most one upstream GET and at most one cache upsert; a cache get came
\* before the upstream GET, the upsert came after an upstream GET, and the upsert
\* came before the response, which is the last step.
C23_RequestOrdering ==
    \A w \in Workers :
        req[w].endpoint = "m" =>
            /\ CountLog(req[w], "get") <= 1
            /\ CountLog(req[w], "fetch") <= 1
            /\ CountLog(req[w], "upsert") <= 1
            /\ CountLog(req[w], "respond") <= 1
            /\ Precedes(req[w], "get", "fetch")
            /\ Before(req[w], "fetch", "upsert")
            /\ Precedes(req[w], "get", "upsert")
            /\ Precedes(req[w], "upsert", "respond")
            /\ Precedes(req[w], "fetch", "respond")
            /\ Precedes(req[w], "get", "respond")
            /\ (req[w].pc = "done") = InLog(req[w], "respond")
            /\ req[w].upserted # <<>> <=> InLog(req[w], "upsert")
            /\ req[w].fetched # <<>> <=> InLog(req[w], "fetch")

\* A request that did all four: get, GET, upsert, response, in this order.
C23_Witness ==
    \E w \in Workers :
        /\ req[w].endpoint = "m"
        /\ req[w].pc = "done"
        /\ req[w].log = <<"allow", "get", "fetch", "upsert", "respond">>

(***************************************************************************)
(* Parallel requests for one page.                                         *)
(***************************************************************************)

\* The /m request r looked its key up and found no entry.
Missed(r) == r.endpoint = "m" /\ InLog(r, "get") /\ r.entry = <<>>

\* The request of worker w takes the step that calls cache_upsert, and the call
\* succeeds.
Upserts(w) ==
    /\ req[w].pc = "upsert"
    /\ req'[w].pc = "done"
    /\ ~req'[w].upsert_failed

\* C24: two parallel /m requests for one cache_key that both find no entry both
\* issue their own upstream GET and both upsert the row made from their own answer,
\* whatever the other is doing; every successful upsert replaces the row stored under
\* the key, nothing else changes the table, and so after both have finished the
\* table holds one row for the key, that of the upsert that ran last.
C24_ConcurrentMisses ==
    /\ [](\A w \in Workers : \A v \in Workers :
            (w # v /\ Missed(req[w]) /\ Missed(req[v])
               /\ req[w].cache_key = req[v].cache_key
               /\ req[w].pc = "done" /\ req[v].pc = "done"
               /\ IsHtml(req[w].resp[1]) /\ IsHtml(req[v].resp[1])
               /\ req[w].resp[1].kind = "ok" /\ req[v].resp[1].kind = "ok")
            => /\ CountLog(req[w], "fetch") = 1
               /\ CountLog(req[w], "upsert") = 1
               /\ req[w].upserted[1].body = rewrite_links(req[w].resp[1].text, req[w].target)
               /\ req[w].upserted[1].last_checked_at = <<req[w].now, "Z">>
               /\ (~req[w].upsert_failed \/ ~req[v].upsert_failed)
                    => /\ DOMAIN store = {req[w].cache_key}
                       /\ store[req[w].cache_key] \in {req[w].upserted[1], req[v].upserted[1]})
    /\ [][/\ \A w \in Workers :
               Upserts(w) => store' = (req[w].cache_key :> req[w].row[1]) @@ store
          /\ store' # store => \E w \in Workers : Upserts(w)]_vars

\* Two parallel misses wrote different rows, and the table holds the row of the
\* request that started first, whose upsert ran last.
C24_Witness ==
    /\ Missed(req[1]) /\ Missed(req[2])
    /\ req[1].store0 = <<>> /\ req[2].store0 = <<>>
    /\ req[1].pc = "done" /\ req[2].pc = "done"
    /\ req[1].upserted # <<>> /\ req[2].upserted # <<>>
    /\ ~req[1].upsert_failed /\ ~req[2].upsert_failed
    /\ req[1].upserted # req[2].upserted
    /\ store = (req[1].cache_key :> req[1].upserted[1])

(***************************************************************************)
(* The host that is fetched.                                               *)
(***************************************************************************)

\* Requests to /m and /i that issued an upstream GET.
Fetchers == { w \in Workers : req[w].endpoint \in {"m", "i"} /\ req[w].fetched # <<>> }

\* C25: a /m or /i request issues its upstream GET only if the host the HTTP client
\* connects to for the target (the part of the authority after "@" and before the
\* port) is a Wikimedia host; for the authority en.wikipedia.org:x@evil.example.com
\* nothing is fetched.
C25_FetchedHostIsWikimedia ==
    \A w \in Fetchers :
        InClosure(Lower(ConnectedHost(urlparse(req[w].fetched[1].url).netloc)))

\* The URL is http(s) and the authority the HTTP client connects to for it is this
\* server's host or a loopback alias of it on the same port.
OnThisServer(u) ==
    /\ urlparse(u).scheme \in {<<"http">>, <<"https">>}
    /\ \E own \in OwnAuthorities :
         \/ Lower(urlparse(u).netloc) = own
         \/ EndsWith(Lower(urlparse(u).netloc), <<"@">> \o own)

\* C26: no /m or /i request issues an upstream GET for a target on this server or on
\* a loopback alias of it, whatever the url argument, also one of more than MAX_HOPS
\* nested wrappers; a request whose target after unwrapping is still on this server
\* is answered 403 without a fetch.
C26_NoSelfFetch ==
    \A w \in Workers :
        (req[w].endpoint \in {"m", "i"} /\ req[w].target # <<>> /\ OnThisServer(req[w].target))
        => /\ req[w].fetched = <<>>
           /\ req[w].pc = "done" => req[w].response[1].status = 403

\* C26 for the url arguments whose authority has no userinfo: those that remain on
\* this server after unwrapping are answered 403 and nothing is fetched.
SelfRefusedWithoutUserinfo ==
    \A w \in Workers :
        (/\ req[w].endpoint \in {"m", "i"}
         /\ req[w].target # <<>>
         /\ OnThisServer(req[w].target)
         /\ ~Contains(urlparse(req[w].target).netloc, <<"@">>))
        => /\ req[w].fetched = <<>>
           /\ req[w].pc = "done" => req[w].response[1].status = 403

\* A chain of MAX_HOPS + 1 wrappers: the wrapper left after unwrapping was refused.
DeepChainRefused ==
    \E w \in Workers :
        /\ req[w].raw_url = Nest(MAX_HOPS + 1, UploadUrl)
        /\ req[w].target = Nest(1, UploadUrl)
        /\ req[w].pc = "done"
        /\ req[w].response[1].status = 403
        /\ req[w].fetched = <<>>

(***************************************************************************)
(* Parallel revalidations.                                                 *)
(***************************************************************************)

\* The rewritten body of upstream version n of the page of a request.
BodyOf(r, n) == rewrite_links(UpstreamDoc(n), r.target)

\* Worker w's row holds the body of an older upstream version than worker v's.
OlderBody(w, v) ==
    \E m \in 0..MaxVersion : \E n \in 0..MaxVersion :
        /\ m < n
        /\ req[w].upserted[1].body = BodyOf(req[w], m)
        /\ req[v].upserted[1].body = BodyOf(req[v], n)

\* Both requests upserted a row for the same key, v's upsert came first and w's
\* replaced it, and w had read the table before v's row was in it.
ReplacedBy(v, w) ==
    /\ w # v
    /\ req[w].endpoint = "m" /\ req[v].endpoint = "m"
    /\ req[w].upserted # <<>> /\ req[v].upserted # <<>>
    /\ ~req[w].upsert_failed /\ ~req[v].upsert_failed
    /\ req[w].cache_key = req[v].cache_key
    /\ req[w].upserted # req[v].upserted
    /\ req[w].cache_key \in DOMAIN store
    /\ store[req[w].cache_key] = req[w].upserted[1]
    /\ req[w].entry # req[v].upserted

\* C27: when a request that read the table earlier upserts after another request has
\* upserted a row with the body of upstream version n, the row it writes does not
\* hold the body of an older version, so in particular not an older body with
\* ttl_seconds above TTL_MIN.
C27_NoRegression ==
    \A v \in Workers : \A w \in Workers :
        ReplacedBy(v, w) => ~OlderBody(w, v)

\* The regression by a 304 that upstream gave before the page changed: w read the
\* stale row of version 0 and was answered 304 with the validators of version 0; v
\* stored version 1 with TTL_MIN; then w wrote back the body of version 0 with
\* ttl_seconds 2 * TTL_MIN.
RegressionBy304 ==
    \E v \in Workers : \E w \in Workers :
        /\ ReplacedBy(v, w)
        /\ OlderBody(w, v)
        /\ req[w].resp[1].status_code = 304
        /\ req[w].resp[1].etag = ETagOf(0)
        /\ req[v].resp[1].status_code = 200
        /\ req[v].upserted[1].ttl_seconds = <<CACHE_TTL_MIN_SECONDS>>
        /\ req[w].upserted[1].ttl_seconds = <<2 * CACHE_TTL_MIN_SECONDS>>

=============================================================================
